---- MODULE Spec2Model ----
(***************************************************************************)
(* Verification model of buildwithzach/phantom-node.                       *)
(*                                                                         *)
(* Several state machines share this module:                               *)
(*   SpecReplay  the bar-by-bar replay loops of backtest_cli.py,           *)
(*               optimize_fast.py, backtester.py and backtest_v10.py, the  *)
(*               last one driving PhantomNodeV10.manage_position;          *)
(*   SpecRerun   run() called twice on one VectorizedBacktester object;    *)
(*   SpecRisk    AdaptiveRiskManager of main.py;                           *)
(*   SpecStreak  PerformanceTracker.update_streak of main.py over the      *)
(*               broker's transaction log;                                 *)
(*   SpecSignal  generate_signal of strategy.py, strategy_v10.py and       *)
(*               strategy_backup.py;                                       *)
(*   SpecUnits   calc_units_usdjpy of main.py;                             *)
(*   SpecTimeStop  check_time_stop of strategy_backup.py and               *)
(*               strategy_backup_optimized.py;                             *)
(*   SpecManage  PositionManager.sync_and_manage of main.py;               *)
(*   SpecLive    the scan loop of main() in main.py;                       *)
(*   SpecLockout the lockouts of AdaptiveRiskManager over time;            *)
(*   SpecHistory update_performance over a long history;                   *)
(*   SpecFeed    backtest_cli.py on stale and malformed candles;           *)
(*   SpecTrend   strategy_backup.py fed a sustained uptrend;               *)
(*   SpecWindow  generate_signal on a sliding window of fixed length;      *)
(*   SpecV10End  backtest_v10.py up to the close-out after the loop.       *)
(*                                                                         *)
(* Units.  Prices are integers in tenths of a yen (u).  Money of the       *)
(* replay is in cents.  Python floats are modelled in fixed point; a       *)
(* quotient is truncated toward zero at the unit of the result.            *)
(***************************************************************************)
EXTENDS Integers, Sequences, FiniteSets, TLC

VARIABLES
    \* ---- replay (backtest_cli.py / optimize_fast.py / backtester.py)
    engine,        \* which replay loop runs: "cli", "fast", "vec", "v10"
    cfg,           \* the configuration mapping handed to the run
    bars,          \* number of bars the loop has consumed
    day,           \* UTC date of the last consumed bar (see NextDates)
    last_date,     \* the loop's last_date (NoDate stands for None)
    equity,        \* equity / balance, cents
    daily_pnl,     \* realized PnL since the last day rollover, cents
    active_trade,  \* the open position, NoTrade stands for None
    trades,        \* the trade ledger
    equity_curve,  \* one entry per processed bar
    bar,           \* what the last step read of its bar while managing a
                   \* position (low, high, the exit taken); NoBar otherwise
    \* ---- backtest_v10.py + PhantomNodeV10.manage_position
    position,      \* the open position dict, NoPos stands for None
    v10_time,      \* time of the current bar, in quarter hours
    v10_last_trade,\* bar index of last_trade_time (0 stands for None)
    v10_events,    \* reasons of the events emitted for the position so far
    v10_call,      \* the last manage_position call: price, position passed
    v10_end,       \* the close-out after the loop: "running" before it,
                   \* then "done", or "raised" for an exception
    \* ---- AdaptiveRiskManager (main.py)
    recent_trades,
    consecutive_losses,
    consecutive_wins,
    rm_daily_pnl,
    max_drawdown,      \* a ratio, kept as <<numerator, denominator>>
    account_peak,
    last_trade_time,   \* direction -> timestamp, -1 stands for absent
    adaptive_cooldowns,\* direction -> cooldown, 0 stands for absent
    now,               \* datetime.utcnow(), minutes
    rm_last,           \* the last call on the manager and what it returned
    \* ---- PerformanceTracker (main.py) and the broker's transaction log
    txs,                   \* the ORDER_FILL transactions the broker returns
    pt_consecutive_losses, \* PerformanceTracker.consecutive_losses
    pt_daily_losses,       \* PerformanceTracker.daily_losses
    risk_reduction_active, \* PerformanceTracker.risk_reduction_active
    streak_runs,           \* how many times the periodic streak check fired
    streak_status,         \* how the last update_streak call ended
    \* ---- the strategy objects (strategy.py, strategy_v10.py,
    \*      strategy_backup.py)
    strat,             \* the class of the strategy object
    strat_cfg,         \* the configuration mapping it was built with
    last_signal_idx,   \* cooldown memory: index of the last emission
    last_signal_time,  \* cooldown memory: its time, NoTime stands for None
    sig_len,           \* len(df) of the frame of the last call
    sig_time,          \* time of the last bar of that frame
    sig_call,          \* the last generate_signal call: locals and result
    \* ---- repeated runs of one VectorizedBacktester object (backtester.py)
    run_no,            \* which run() call on the object is in progress
    feed,              \* the frame of the object: the rows consumed so far
    first_result,      \* what the first run() left for get_metrics
    \* ---- the live loop of main.py
    units_call,        \* the last calc_units_usdjpy call: arguments, result
    broker_trades,     \* the open trades of the account at the broker
    sl_sent,           \* the stop prices sent to the broker, per trade id
    pm_scan,           \* what the last sync_and_manage saw and did, per trade
    scans,             \* number of scans so far
    \* ---- strategy_backup.py, strategy_backup_optimized.py
    ts_call,           \* the last check_time_stop call: arguments, result
    \* ---- main() of main.py
    pc,                \* where the loop stands; "stopped" after a break
    kill_file,         \* the file .kill-algo exists
    circuit_breaker_tripped,
    balance_at_reset,  \* NoBalance stands for None
    scan,              \* the locals of the scan in progress
    order_log,         \* the execute_order requests sent to the broker
    trades_today,      \* PositionManager.trades_today
    \* ---- AdaptiveRiskManager over a long history
    ingests,           \* update_performance calls of the run
    \* ---- the candles handed to backtest_cli.py
    cli_feed           \* stale bars consumed so far; the run ended in error

replayVars == <<engine, cfg, bars, day, last_date, equity, daily_pnl,
                active_trade, trades, equity_curve, bar>>
v10Vars    == <<position, v10_time, v10_last_trade, v10_events, v10_call,
                v10_end>>
riskVars   == <<recent_trades, consecutive_losses, consecutive_wins,
                rm_daily_pnl, max_drawdown, account_peak, last_trade_time,
                adaptive_cooldowns, now, rm_last>>
streakVars == <<txs, pt_consecutive_losses, pt_daily_losses,
                risk_reduction_active, streak_runs, streak_status>>
signalVars == <<strat, strat_cfg, last_signal_idx, last_signal_time, sig_len,
                sig_time, sig_call>>
rerunVars  == <<run_no, feed, first_result>>
loopVars   == <<pc, kill_file, circuit_breaker_tripped, balance_at_reset,
                scan, order_log, trades_today, ingests, cli_feed>>
liveVars   == <<units_call, broker_trades, sl_sent, pm_scan, scans,
                ts_call, loopVars>>
vars       == <<replayVars, v10Vars, riskVars, streakVars, signalVars,
                rerunVars, liveVars>>

----------------------------------------------------------------------------
(* Arithmetic helpers *)

Abs(x) == IF x < 0 THEN -x ELSE x

Max2(a, b) == IF a >= b THEN a ELSE b

Min2(a, b) == IF a <= b THEN a ELSE b

\* Python's int(a / b) and the fixed-point image of a float quotient:
\* the quotient truncated toward zero.
TDiv(a, b) ==
    IF (a >= 0) = (b > 0) THEN Abs(a) \div Abs(b) ELSE -(Abs(a) \div Abs(b))

----------------------------------------------------------------------------
(* Bounds of the replay model *)

MaxBars == 3

PriceGrid == {1000, 1010, 1020}

AtrSet == {10}

InitialEquity == 100000

\* backtest_cli.py 17: initial_equity is read from the request; 50.00 is an
\* account on which one percent buys less than one unit.
CliInitialEquity == {InitialEquity, 5000}

MaxDailyLossSet == {5000}

RiskPctSet == {1, 5}

TargetStartSet == {0, 1}

CfgSet == [rr10 : {10}, mult10 : {10}, risk_pct : RiskPctSet,
           max_daily_loss : MaxDailyLossSet, target_start : TargetStartSet]

BarSet == {b \in [low : PriceGrid, high : PriceGrid, close : PriceGrid] :
              b.low <= b.close /\ b.close <= b.high}

\* Dates.  The loops read a date only to compare it with last_date and with
\* target_start_date, so a date is kept as BeforeStart (earlier than
\* target_start_date) or as the parity of the day number; timestamps
\* increase, so the next bar is on the same day or on a later one.
BeforeStart == -1

NoDate == -2

FirstDates(c) == IF c.target_start = 1 THEN {BeforeStart, 0} ELSE {0}

NextDates(d, n, c) ==
    IF n = 0 THEN FirstDates(c)
    ELSE IF d = BeforeStart THEN {BeforeStart, 0}
    ELSE {d, 1 - d}

\* The bars fed to a loop: low and high are read only while a position is
\* open, so a flat bar stands for every bar with the same close otherwise.
BarsFor(t) ==
    IF t.action = "NONE" THEN {b \in BarSet : b.low = b.high} ELSE BarSet

\* The session results worth telling apart for a signal.
SessionsFor(sig) == IF sig.action = "HOLD" THEN {TRUE} ELSE BOOLEAN

NoExit == [price |-> 0, reason |-> "none"]

NoBar == [low |-> 0, high |-> 0, exit |-> NoExit]

BarRead(has, b, ex) ==
    IF has THEN [low |-> b.low, high |-> b.high, exit |-> ex] ELSE NoBar

NoTrade == [action |-> "NONE", entry |-> 0, sl |-> 0, tp |-> 0, units |-> 0]

----------------------------------------------------------------------------
(* The signal handed to the replay: entry, stop and target as              *)
(* generate_signal builds them from the close and the ATR.                 *)

SignalFor(action, close, atr, c) ==
    LET dist == (atr * c.mult10) \div 10
        tdist == (dist * c.rr10) \div 10
    IN  IF action = "BUY"
        THEN [action |-> "BUY", entry |-> close, sl |-> close - dist,
              tp |-> close + tdist]
        ELSE IF action = "SELL"
        THEN [action |-> "SELL", entry |-> close, sl |-> close + dist,
              tp |-> close - tdist]
        ELSE [action |-> "HOLD", entry |-> close, sl |-> close, tp |-> close]

SignalSet(close, c) ==
    {SignalFor(a, close, atr, c) : a \in {"HOLD", "BUY", "SELL"}, atr \in AtrSet}

----------------------------------------------------------------------------
(* backtest_cli.py: run_backtest, the body of the bar loop *)

\* The dict built when a position is opened has no 'signal' key, so the
\* lookup active_trade.get('signal', {}) yields the empty mapping.
TradeHasSignalKey == FALSE

\* row.get('atr14', 0): calculate_indicators of PhantomNodeV10 produces a
\* column named 'atr', never 'atr14'.
CliCurrentAtr == 0

TrailAtrMult10 == 21

TrailStartRr10 == 20

\* Lines 86-104: the trailing-stop update, reached only for a trade that
\* carries a 'signal' with an enabled phantom_node.trailing_stop.
CliTrailing(t, close) ==
    IF ~TradeHasSignalKey THEN t
    ELSE LET sl_dist == IF t.action = "SELL" THEN t.sl - t.entry
                        ELSE t.entry - t.sl
             gain == IF t.action = "BUY" THEN close - t.entry
                     ELSE t.entry - close
             reached == IF sl_dist > 0
                        THEN gain * 10 >= TrailStartRr10 * sl_dist
                        ELSE gain * 10 <= TrailStartRr10 * sl_dist
             tdist == (TrailAtrMult10 * CliCurrentAtr) \div 10
         IN  IF ~reached THEN t
             ELSE IF t.action = "BUY"
             THEN [t EXCEPT !.sl = Max2(close - tdist, t.sl)]
             ELSE [t EXCEPT !.sl = Min2(close + tdist, t.sl)]

\* Lines 112-119 and 128-134: the move to breakeven plus a buffer of a
\* tenth of the stop distance, once the bar trades beyond 1R.
CliBreakeven(t, b) ==
    IF t.action = "BUY"
    THEN LET sl_dist == t.entry - t.sl
         IN  IF b.high > t.entry + sl_dist
                /\ t.entry * 10 + sl_dist > t.sl * 10
             THEN [t EXCEPT !.sl = t.entry + TDiv(sl_dist, 10)]
             ELSE t
    ELSE LET sl_dist == t.sl - t.entry
         IN  IF b.low < t.entry - sl_dist
                /\ t.entry * 10 - sl_dist < t.sl * 10
             THEN [t EXCEPT !.sl = t.entry - TDiv(sl_dist, 10)]
             ELSE t

\* Mutant of ExitCheck: the target is tested before the stop.
ExitCheck_TargetFirst(t, b) ==
    IF t.action = "BUY"
    THEN IF b.high >= t.tp THEN [price |-> t.tp, reason |-> "Take Profit"]
         ELSE IF b.low <= t.sl
         THEN [price |-> t.sl, reason |-> "Stop Loss"]
         ELSE NoExit
    ELSE IF b.low <= t.tp THEN [price |-> t.tp, reason |-> "Take Profit"]
         ELSE IF b.high >= t.sl
         THEN [price |-> t.sl, reason |-> "Stop Loss"]
         ELSE NoExit

\* The intrabar exit check shared by the three loops: the stop is tested
\* first, the target only in the elif branch.
ExitCheck(t, b) ==
    IF t.action = "BUY"
    THEN IF b.low <= t.sl THEN [price |-> t.sl, reason |-> "Stop Loss"]
         ELSE IF b.high >= t.tp
         THEN [price |-> t.tp, reason |-> "Take Profit"]
         ELSE NoExit
    ELSE IF b.high >= t.sl THEN [price |-> t.sl, reason |-> "Stop Loss"]
         ELSE IF b.low <= t.tp
         THEN [price |-> t.tp, reason |-> "Take Profit"]
         ELSE NoExit

\* Lines 149-154: PnL of a closed trade, cents.
CliPnl(t, exit_price) ==
    LET d == exit_price - t.entry
        price_diff == IF t.action = "SELL" THEN -d ELSE d
    IN  TDiv(price_diff * Abs(t.units) * 100000, exit_price)

\* Mutant of CircuitOk: the sign of the threshold is lost.
CircuitOk_SignSlip(dpnl, c) == dpnl < c.max_daily_loss

\* Line 167: the daily circuit breaker lets an entry through.
CircuitOk(dpnl, c) == dpnl > -c.max_daily_loss

\* Mutant of MayOpen: a signal is taken whatever is open.
MayOpen_Always(t) == TRUE

\* backtest_cli.py 167, optimize_fast.py 58, backtester.py 54,
\* backtest_v10.py 67: a signal is looked for only when no position is
\* open.
MayOpen(t) == t.action = "NONE"

\* Lines 185-196: calc_units_usdjpy as nested in the loop, and the sign.
CliUnits(eq, c, sig) ==
    LET sl_dist == Abs(sig.entry - sig.sl)
        units == IF sl_dist <= 0 THEN 0
                 ELSE TDiv(eq * c.risk_pct, 1000 * sl_dist)
    IN  IF sig.action = "SELL" THEN -units ELSE units

\* Lines 74-76: the daily reset.
DailyReset(dpnl, ldate, d) == IF ldate # d THEN 0 ELSE dpnl

\* Mutant of ClosedRecord: the ledger entry is stored without its PnL.
ClosedRecord_NoPnl(t, ex, pnl) ==
    [action |-> t.action, entry |-> t.entry, sl |-> t.sl, tp |-> t.tp,
     units |-> t.units, exitPrice |-> ex.price, exitReason |-> ex.reason,
     pnl |-> 0]

\* backtest_cli.py 157-161, backtester.py 143-155: the ledger entry of a
\* closed trade.
ClosedRecord(t, ex, pnl) ==
    [action |-> t.action, entry |-> t.entry, sl |-> t.sl, tp |-> t.tp,
     units |-> t.units, exitPrice |-> ex.price, exitReason |-> ex.reason,
     pnl |-> pnl]

\* One iteration of the loop for a bar at or after target_start_date.
CliBar(d, b, session, sig) ==
    LET dp0 == DailyReset(daily_pnl, last_date, d)
        has == active_trade.action # "NONE"
        t1 == IF has THEN CliBreakeven(CliTrailing(active_trade, b.close), b)
              ELSE active_trade
        ex == IF has THEN ExitCheck(t1, b) ELSE NoExit
        closed == has /\ ex.price # 0
        pnl == IF closed THEN CliPnl(t1, ex.price) ELSE 0
        eq1 == equity + pnl
        dp1 == dp0 + pnl
        t2 == IF closed THEN NoTrade ELSE t1
        opens == /\ MayOpen(t2)
                 /\ CircuitOk(dp1, cfg)
                 /\ session
                 /\ sig.action \in {"BUY", "SELL"}
                 /\ Abs(sig.entry - sig.sl) > 0
        t3 == IF opens
              THEN [action |-> sig.action, entry |-> sig.entry,
                    sl |-> sig.sl, tp |-> sig.tp,
                    units |-> CliUnits(eq1, cfg, sig)]
              ELSE t2
    IN  /\ engine = "cli"
        /\ d # BeforeStart
        /\ last_date' = d
        /\ daily_pnl' = dp1
        /\ equity' = eq1
        /\ trades' = IF closed THEN Append(trades, ClosedRecord(t1, ex, pnl))
                     ELSE trades
        /\ active_trade' = t3
        /\ equity_curve' = Append(equity_curve, eq1)
        /\ bar' = BarRead(has, b, ex)

\* Mutant of CliSkip: the skipped bar leaves an equity point.
CliSkip_Appends(d) ==
    /\ engine = "cli"
    /\ d = BeforeStart
    /\ bar' = NoBar
    /\ equity_curve' = Append(equity_curve, equity)
    /\ UNCHANGED <<last_date, daily_pnl, equity, trades, active_trade>>

\* Lines 70-71: a bar before target_start_date is skipped.
CliSkip(d) ==
    /\ engine = "cli"
    /\ d = BeforeStart
    /\ bar' = NoBar
    /\ UNCHANGED <<last_date, daily_pnl, equity, trades, active_trade,
                   equity_curve>>

ReplayCliBar ==
    /\ bars < MaxBars
    /\ \E d \in NextDates(day, bars, cfg), b \in BarsFor(active_trade) :
         \E sig \in SignalSet(b.close, cfg) : \E session \in SessionsFor(sig) :
            /\ day' = d
            /\ bars' = bars + 1
            /\ CliBar(d, b, session, sig)
    /\ UNCHANGED <<engine, cfg, v10Vars, riskVars, streakVars, signalVars,
                 rerunVars, liveVars>>

ReplayCliSkip ==
    /\ bars < MaxBars
    /\ \E d \in NextDates(day, bars, cfg) :
            /\ day' = d
            /\ bars' = bars + 1
            /\ CliSkip(d)
    /\ UNCHANGED <<engine, cfg, v10Vars, riskVars, streakVars, signalVars,
                 rerunVars, liveVars>>

----------------------------------------------------------------------------
(* strategy.py, strategy_backup.py: the cooldown memory of a strategy       *)
(* object.  Times are in units of five minutes.                             *)

\* The spacing of M15 bars.
M15 == 3

NoTime == -1

\* strategy.py 16-17: cooldown_bars and min_hours_between_trades (half an
\* hour).
StrategyCooldownBars == 2

StrategyMinHours == 6

\* strategy.py 133, strategy_backup.py 501: the bar condition of the
\* cooldown.
BarCooldownOk(len_df, bars_needed) ==
    (len_df - 1 - last_signal_idx) >= bars_needed

\* strategy.py 134-137, strategy_backup.py 504-511: the time condition.
TimeCooldownOk(current_time, hours_needed) ==
    IF last_signal_time # NoTime
    THEN (current_time - last_signal_time) >= hours_needed
    ELSE TRUE

CooldownOk_Either(bar_cooldown_ok, time_cooldown_ok) ==
    bar_cooldown_ok \/ time_cooldown_ok

\* strategy.py 139, strategy_backup.py 513: both conditions are required.
CooldownOk(bar_cooldown_ok, time_cooldown_ok) ==
    bar_cooldown_ok /\ time_cooldown_ok

\* The cooldown test of the strategy object of optimize_fast.py and
\* backtester.py on the slice df.iloc[:i+1] of a frame of M15 bars
\* (backtester.py 102).
LoopCooldownOk(i) ==
    CooldownOk(BarCooldownOk(i + 1, StrategyCooldownBars),
               TimeCooldownOk(M15 * i, StrategyMinHours))

----------------------------------------------------------------------------
(* optimize_fast.py: FastBacktestEngine.run, the body of the bar loop *)

\* Line 24: the index of the first bar the loop handles.
FastWarmup == 500

\* Line 66: units = (risk_amount * entry) / sl_dist, a float; hundredths.
FastUnits(eq, c, sig) ==
    LET sl_dist == Abs(sig.entry - sig.sl)
        units == TDiv(eq * c.risk_pct * sig.entry, 100 * sl_dist)
    IN  IF sig.action = "SELL" THEN -units ELSE units

\* Lines 51-52: the PnL of a closed trade, cents.
FastPnl(t, exit_price) == TDiv((exit_price - t.entry) * t.units, exit_price)

FastBar(d, b, session, sig) ==
    LET dp0 == DailyReset(daily_pnl, last_date, d)
        has == active_trade.action # "NONE"
        ex == IF has THEN ExitCheck(active_trade, b) ELSE NoExit
        closed == has /\ ex.price # 0
        pnl == IF closed THEN FastPnl(active_trade, ex.price) ELSE 0
        eq1 == equity + pnl
        dp1 == dp0 + pnl
        t2 == IF closed THEN NoTrade ELSE active_trade
        i == FastWarmup + bars
        \* Line 61: the strategy is asked, and emits what it found unless
        \* its cooldown holds it back.
        emits == /\ MayOpen(t2)
                 /\ CircuitOk(dp1, cfg)
                 /\ session
                 /\ LoopCooldownOk(i)
                 /\ sig.action \in {"BUY", "SELL"}
        opens == emits /\ Abs(sig.entry - sig.sl) > 0
        t3 == IF opens
              THEN [action |-> sig.action, entry |-> sig.entry,
                    sl |-> sig.sl, tp |-> sig.tp,
                    units |-> FastUnits(eq1, cfg, sig)]
              ELSE t2
    IN  /\ engine = "fast"
        /\ last_date' = d
        /\ daily_pnl' = dp1
        /\ equity' = eq1
        /\ trades' = IF closed THEN Append(trades, [pnl |-> pnl]) ELSE trades
        /\ active_trade' = t3
        /\ equity_curve' = Append(equity_curve, eq1)
        /\ bar' = BarRead(has, b, ex)
        /\ last_signal_idx' = (IF emits THEN i ELSE last_signal_idx)
        /\ last_signal_time' = (IF emits THEN M15 * i ELSE last_signal_time)

ReplayFastBar ==
    /\ bars < MaxBars
    /\ \E d \in NextDates(day, bars, cfg), b \in BarsFor(active_trade) :
         \E sig \in SignalSet(b.close, cfg) : \E session \in SessionsFor(sig) :
            /\ day' = d
            /\ bars' = bars + 1
            /\ FastBar(d, b, session, sig)
    /\ UNCHANGED <<engine, cfg, v10Vars, riskVars, streakVars, strat, strat_cfg,
                 sig_len, sig_time, sig_call,
                 rerunVars, liveVars>>

----------------------------------------------------------------------------
(* backtester.py: VectorizedBacktester.run and _close_trade *)

\* Line 32: the index of the first bar the loop handles.
VecWarmup == 800

\* Line 66: size = balance * 0.01 / |entry - sl|, a float; thousandths of
\* a cent per price unit.
VecSize(balance, sig) == TDiv(balance * 10, Abs(sig.entry - sig.sl))

\* Line 72: the PnL of _close_trade, cents.
VecPnl(t, exit_price) ==
    IF t.action = "BUY" THEN TDiv((exit_price - t.entry) * t.units, 1000)
    ELSE TDiv((t.entry - exit_price) * t.units, 1000)

VecBar(b, sig) ==
    LET has == active_trade.action # "NONE"
        ex == IF has THEN ExitCheck(active_trade, b) ELSE NoExit
        closed == has /\ ex.reason # "none"
        pnl == IF closed THEN VecPnl(active_trade, ex.price) ELSE 0
        eq1 == equity + pnl
        t2 == IF closed THEN NoTrade ELSE active_trade
        i == VecWarmup + bars
        \* Line 57: the strategy object of the backtester is asked, and emits
        \* what it found unless its cooldown holds it back.
        opens == /\ MayOpen(t2)
                 /\ LoopCooldownOk(i)
                 /\ sig.action \in {"BUY", "SELL"}
        t3 == IF opens
              THEN [action |-> sig.action, entry |-> sig.entry,
                    sl |-> sig.sl, tp |-> sig.tp,
                    units |-> VecSize(eq1, sig)]
              ELSE t2
    IN  /\ engine = "vec"
        /\ equity' = eq1
        /\ trades' = IF closed
                     THEN Append(trades, ClosedRecord(active_trade, ex, pnl))
                     ELSE trades
        /\ active_trade' = t3
        /\ bar' = BarRead(has, b, ex)
        /\ last_signal_idx' = (IF opens THEN i ELSE last_signal_idx)
        /\ last_signal_time' = (IF opens THEN M15 * i ELSE last_signal_time)
        /\ UNCHANGED <<last_date, daily_pnl, equity_curve>>

ReplayVecBar ==
    /\ bars < MaxBars
    /\ \E b \in BarsFor(active_trade) :
         \E sig \in SignalSet(b.close, cfg) :
            /\ day' = day
            /\ bars' = bars + 1
            /\ VecBar(b, sig)
    /\ UNCHANGED <<engine, cfg, v10Vars, riskVars, streakVars, strat, strat_cfg,
                 sig_len, sig_time, sig_call,
                 rerunVars, liveVars>>

----------------------------------------------------------------------------
(* strategy_v10.py: PhantomNodeV10.manage_position                         *)
(*                                                                         *)
(* Here lot sizes are in millionths of a lot and money in 1e-4 USD, which  *)
(* makes pips * lots * 10 and the 0.25 / 0.333 / 0.667 / 0.75 factors      *)
(* exact.  Time is in quarter hours.                                       *)

NoPos == [action |-> "NONE", entry |-> 0, sl |-> 0, tp |-> 0, size |-> 0,
          atr |-> 0, entry_time |-> 0, breakeven |-> FALSE,
          partial_taken |-> FALSE, partial2_taken |-> FALSE]

NoEvent == [action |-> "NONE", price |-> 0, pnl |-> 0, reason |-> "none"]

NoCall == [price |-> 0, before |-> NoPos, event |-> NoEvent]

TimeExitQuarters == 48

\* Lines 411-414: pips in the position's own direction.
Pips(pos, price) ==
    IF pos.action = "BUY" THEN (price - pos.entry) * 10
    ELSE (pos.entry - price) * 10

\* Line 416: current_pnl = pips * size * 10.
PipsPnl(pips, size) == (pips * size) \div 10

\* Line 429: risk_pips, read from the stop the position carries now.
RiskPips(pos) == Abs(pos.entry - pos.sl) * 10

\* Line 432: the breakeven trigger.
BreakevenDue(pos, pips, risk_pips) ==
    ~pos.breakeven /\ Abs(pips) >= risk_pips

\* Lines 431-437.
MoveToBreakeven(pos, pips, risk_pips) ==
    IF BreakevenDue(pos, pips, risk_pips)
    THEN [pos EXCEPT !.breakeven = TRUE, !.sl = pos.entry]
    ELSE pos

\* Mutant of TrailTier: the new stop is stored without comparing it with
\* the current one.
TrailTier_Unguarded(pos, price, pips, risk_pips, k, atr2) ==
    IF Abs(pips) >= k * risk_pips
    THEN LET dist == (pos.atr * atr2) \div 2
         IN  IF pos.action = "BUY"
             THEN [pos EXCEPT !.sl = price - dist]
             ELSE [pos EXCEPT !.sl = price + dist]
    ELSE pos

\* Lines 439-459: one trailing tier; k is the R multiple, atr2 twice the
\* ATR multiple of the tier.
TrailTier(pos, price, pips, risk_pips, k, atr2) ==
    IF Abs(pips) >= k * risk_pips
    THEN LET dist == (pos.atr * atr2) \div 2
         IN  IF pos.action = "BUY"
             THEN IF price - dist > pos.sl
                  THEN [pos EXCEPT !.sl = price - dist] ELSE pos
             ELSE IF price + dist < pos.sl
                  THEN [pos EXCEPT !.sl = price + dist] ELSE pos
    ELSE pos

\* Mutant of Partial1Due: the taken-flag is not consulted.
Partial1Due_NoFlag(pos, pips, risk_pips) == Abs(pips) >= 2 * risk_pips

\* Lines 492 and 505: the guards of the two partial closes.
Partial1Due(pos, pips, risk_pips) ==
    ~pos.partial_taken /\ Abs(pips) >= 2 * risk_pips

Partial2Due(pos, pips, risk_pips) ==
    ~pos.partial2_taken /\ pos.partial_taken /\ Abs(pips) >= 3 * risk_pips

\* Lines 402-517.  The result is the pair the method returns plus the dict
\* it mutated in place (the caller keeps a reference to it).
ManagePosition(pos, price, time) ==
    LET pips == Pips(pos, price)
        current_pnl == PipsPnl(pips, pos.size)
        risk_pips == RiskPips(pos)
        p1 == MoveToBreakeven(pos, pips, risk_pips)
        p2 == TrailTier(p1, price, pips, risk_pips, 2, 4)
        p3 == TrailTier(p2, price, pips, risk_pips, 3, 3)
        stop_hit == \/ (p3.action = "BUY" /\ price <= p3.sl)
                    \/ (p3.action = "SELL" /\ price >= p3.sl)
        tp_hit == \/ (p3.action = "BUY" /\ price >= p3.tp)
                  \/ (p3.action = "SELL" /\ price <= p3.tp)
    IN  IF time - pos.entry_time > TimeExitQuarters
        THEN [ret |-> NoPos, dict |-> pos,
              event |-> [action |-> "CLOSE", price |-> price,
                         pnl |-> current_pnl, reason |-> "Time exit (12h)"]]
        ELSE IF stop_hit
        THEN [ret |-> NoPos, dict |-> p3,
              event |-> [action |-> "CLOSE", price |-> p3.sl,
                         pnl |-> PipsPnl(Pips(p3, p3.sl), pos.size),
                         reason |-> "Stop loss hit"]]
        ELSE IF tp_hit
        THEN [ret |-> NoPos, dict |-> p3,
              event |-> [action |-> "CLOSE", price |-> p3.tp,
                         pnl |-> PipsPnl(Pips(p3, p3.tp), pos.size),
                         reason |-> "Take profit hit"]]
        ELSE IF Partial1Due(p3, pips, risk_pips)
        THEN LET q == [p3 EXCEPT !.partial_taken = TRUE,
                                 !.size = TDiv(pos.size * 3, 4)]
             IN  [ret |-> q, dict |-> q,
                  event |-> [action |-> "PARTIAL_CLOSE", price |-> price,
                             pnl |-> TDiv(current_pnl, 4),
                             reason |-> "Partial profit at 2R"]]
        ELSE IF Partial2Due(p3, pips, risk_pips)
        THEN LET q == [p3 EXCEPT !.partial2_taken = TRUE,
                                 !.size = TDiv(p3.size * 667, 1000)]
             IN  [ret |-> q, dict |-> q,
                  event |-> [action |-> "PARTIAL_CLOSE", price |-> price,
                             pnl |-> TDiv(current_pnl * 333, 1000),
                             reason |-> "Second partial at 3R"]]
        ELSE [ret |-> p3, dict |-> p3, event |-> NoEvent]

----------------------------------------------------------------------------
(* backtest_v10.py: run_backtest, the body of the bar loop *)

MaxV10Bars == 5

V10Prices == {958, 1000, 1042, 1084, 1126, 1147}

V10Atr == 20

\* The ATR of bar n of the loop.  It is 0 only after a stretch of bars
\* without any range; once a price has moved it stays positive, so the
\* stretch, if there is one, is the history before the first bar.
V10AtrSet(n) == IF n = 1 THEN {0, V10Atr} ELSE {V10Atr}

\* Gaps between consecutive bar times: a quarter hour, or a gap in the
\* data longer than the 12 hour time exit.
V10Gaps == {1, 49}

V10InitialBalance == 100000000

V10MaxTrades == 5

V10CooldownBars == 4

\* PhantomNodeV10() without a configuration: 2.1, 3.5 and 0.01.
V10Cfg == [rr10 |-> 35, mult10 |-> 21, risk_pct |-> 1, max_daily_loss |-> 0,
           target_start |-> 0]

\* strategy_v10.py 107-111: the cooldown filter of generate_signal.
V10CooldownHolds(n) ==
    v10_last_trade # 0 /\ n - v10_last_trade < V10CooldownBars

\* strategy_v10.py 386-400: calculate_position_size, in millionths of a
\* lot; the rounding to two decimals is to the nearest hundredth.
CalculatePositionSize(balance, entry, stop_loss, strength10) ==
    LET risk_per_pip == Abs(entry - stop_loss) * 10
    IN  IF risk_per_pip = 0 THEN 10000
        ELSE LET lots1000 == TDiv(balance * strength10, 100000 * risk_per_pip)
                 capped == Max2(10, Min2(lots1000, 800))
             IN  ((capped + 5) \div 10) * 10000

V10Bar(price, gap, sig, atr) ==
    LET n == bars + 1
        time == v10_time + gap
        may_open == MayOpen(position) /\ Len(trades) < V10MaxTrades
        s == IF may_open /\ ~V10CooldownHolds(n) THEN sig
             ELSE SignalFor("HOLD", price, V10Atr, V10Cfg)
        size == CalculatePositionSize(equity, s.entry, s.sl, 10)
        opens == may_open /\ s.action \in {"BUY", "SELL"} /\ size > 0
        p0 == IF opens
              THEN [action |-> s.action, entry |-> s.entry, sl |-> s.sl,
                    tp |-> s.tp, size |-> size, atr |-> atr,
                    entry_time |-> time, breakeven |-> FALSE,
                    partial_taken |-> FALSE, partial2_taken |-> FALSE]
              ELSE position
        has == p0.action # "NONE"
        m == IF has THEN ManagePosition(p0, price, time)
             ELSE [ret |-> NoPos, dict |-> NoPos, event |-> NoEvent]
        closed == has /\ m.ret.action = "NONE" /\ m.event.action = "CLOSE"
        partial == has /\ ~closed /\ m.event.action = "PARTIAL_CLOSE"
        booked == closed \/ partial
    IN  /\ engine = "v10"
        /\ v10_time' = time
        /\ v10_last_trade' = IF opens THEN n ELSE v10_last_trade
        /\ position' = IF closed THEN NoPos ELSE m.dict
        /\ equity' = IF booked THEN equity + m.event.pnl ELSE equity
        /\ trades' = IF closed
                     THEN Append(trades,
                            [action |-> p0.action, entry |-> p0.entry,
                             sl |-> m.dict.sl, tp |-> p0.tp,
                             units |-> m.dict.size,
                             exitPrice |-> m.event.price,
                             exitReason |-> m.event.reason,
                             pnl |-> m.event.pnl])
                     ELSE trades
        /\ equity_curve' = IF booked
                           THEN Append(equity_curve, equity + m.event.pnl)
                           ELSE equity_curve
        /\ v10_events' = IF ~has THEN << >>
                         ELSE IF m.event.action = "NONE"
                         THEN (IF opens THEN << >> ELSE v10_events)
                         ELSE Append(IF opens THEN << >> ELSE v10_events,
                                     m.event.reason)
        /\ v10_call' = IF has
                       THEN [price |-> price, before |-> p0,
                             event |-> m.event]
                       ELSE NoCall
        /\ UNCHANGED <<last_date, daily_pnl, bar, active_trade, v10_end>>

ReplayV10Bar ==
    /\ bars < MaxV10Bars
    /\ v10_end = "running"
    /\ \E price \in V10Prices, gap \in V10Gaps, atr \in V10AtrSet(bars + 1) :
         \E sig \in {SignalFor(a, price, atr, V10Cfg) :
                        a \in {"HOLD", "BUY", "SELL"}} :
            /\ day' = day
            /\ bars' = bars + 1
            /\ V10Bar(price, gap, sig, atr)
    /\ UNCHANGED <<engine, cfg, riskVars, streakVars, signalVars,
                 rerunVars, liveVars>>

\* Lines 145-165: after the loop an open position is handed to
\* manage_position once more, with the close and the time of the last row,
\* and the pair it returns is unpacked into position and exit_signal.  The
\* CLOSE branch adds the PnL to the balance and then builds the trade from
\* position['action'], with position already rebound to the first element
\* of the pair.
V10CloseOut ==
    LET has == position.action # "NONE"
        m == IF has THEN ManagePosition(position, v10_call.price, v10_time)
             ELSE [ret |-> NoPos, dict |-> NoPos, event |-> NoEvent]
        closes == has /\ m.event.action = "CLOSE"
        raises == closes /\ m.ret = NoPos
    IN  /\ engine = "v10"
        /\ position' = m.ret
        /\ equity' = IF closes THEN equity + m.event.pnl ELSE equity
        /\ trades' = IF closes /\ ~raises
                     THEN Append(trades,
                            [action |-> m.ret.action, entry |-> m.ret.entry,
                             sl |-> m.dict.sl, tp |-> m.ret.tp,
                             units |-> m.dict.size,
                             exitPrice |-> m.event.price,
                             exitReason |-> m.event.reason,
                             pnl |-> m.event.pnl])
                     ELSE trades
        /\ equity_curve' = IF closes /\ ~raises
                           THEN Append(equity_curve, equity + m.event.pnl)
                           ELSE equity_curve
        /\ v10_events' = IF has /\ m.event.action # "NONE"
                         THEN Append(v10_events, m.event.reason)
                         ELSE v10_events
        /\ v10_call' = IF has
                       THEN [price |-> v10_call.price, before |-> position,
                             event |-> m.event]
                       ELSE v10_call
        /\ v10_end' = IF raises THEN "raised" ELSE "done"
        /\ UNCHANGED <<last_date, daily_pnl, bar, active_trade, v10_time,
                       v10_last_trade>>

\* The frame of the run ends after any bar.
ReplayV10CloseOut ==
    /\ bars >= 1
    /\ v10_end = "running"
    /\ V10CloseOut
    /\ UNCHANGED <<engine, cfg, bars, day, riskVars, streakVars, signalVars,
                 rerunVars, liveVars>>

----------------------------------------------------------------------------
(* main.py: AdaptiveRiskManager                                            *)
(*                                                                         *)
(* Balances and PnL are whole dollars.  Cooldowns are in hundredths of a   *)
(* minute; the clock is in minutes.  A trade record keeps the two fields   *)
(* the class reads back, result and pnl.                                   *)

MaxIngest == 3

MaxTicks == 1

TickMinutes == 6

\* Balances reported with a trade outcome.
BalanceSet == {0, 100}

\* Balances handed to is_locked_out.
LockBalanceSet == {0, 94, 100}

NoBalance == -1

PnlSet == {-20, 10}

Directions == {"BUY", "SELL"}

base_cooldown == 500

max_cooldown == 6000

consecutive_loss_limit == 3

HistoryWindow == 20

NoResult == [op |-> "none", direction |-> "", balance |-> NoBalance,
             locked |-> FALSE, reason |-> "", raised |-> FALSE]

\* The two directions share nothing but the performance statistics and the
\* class treats them alike, so a run registers trades and adapts the
\* cooldown of one of them; is_locked_out is asked about both.
TradedDirection == "BUY"

OnlyDirection(direction) == direction = TradedDirection

\* Lines 374-383: calculate_win_rate over the last `window` trades, as the
\* pair <<wins, window>>; <<1, 2>> is the 0.5 returned for no trades.
CalculateWinRate(rt, window) ==
    LET w == Min2(window, Len(rt))
        wins == Cardinality({i \in (Len(rt) - w + 1)..Len(rt) :
                                rt[i].result = "WIN"})
    IN  IF w = 0 THEN <<1, 2>> ELSE <<wins, w>>

RECURSIVE SumPnl(_, _)
SumPnl(rt, res) ==
    IF rt = << >> THEN 0
    ELSE (IF rt[1].result = res THEN Abs(rt[1].pnl) ELSE 0)
           + SumPnl(Tail(rt), res)

\* Lines 385-394: calculate_avg_win_loss_ratio as the pair
\* <<numerator, denominator>> of avg_win / avg_loss; <<1, 1>> is the 1.0
\* returned when there is no win, no loss or no positive average loss.
CalculateAvgWinLossRatio(rt) ==
    LET nw == Cardinality({i \in 1..Len(rt) : rt[i].result = "WIN"})
        nl == Cardinality({i \in 1..Len(rt) : rt[i].result = "LOSS"})
        sw == SumPnl(rt, "WIN")
        sl == SumPnl(rt, "LOSS")
    IN  IF nw = 0 \/ nl = 0 THEN <<1, 1>>
        ELSE IF sl > 0 THEN <<sw * nl, sl * nw>>
        ELSE <<1, 1>>

\* Lines 400-434: the factors that increase the cooldown, in tenths, and
\* their maximum (10 when none applies).
CooldownFactors(rt, cl, mdd) ==
    LET wr == CalculateWinRate(rt, 10)
        ratio == CalculateAvgWinLossRatio(rt)
        last5 == Cardinality({i \in (Len(rt) - 4)..Len(rt) :
                                 rt[i].result = "LOSS"})
    IN  (IF cl >= 3 THEN {20} ELSE IF cl >= 2 THEN {15} ELSE {})
        \cup (IF mdd[1] * 100 > 5 * mdd[2] THEN {15}
              ELSE IF mdd[1] * 100 > 3 * mdd[2] THEN {13} ELSE {})
        \cup (IF wr[1] * 10 < 3 * wr[2] THEN {14}
              ELSE IF wr[1] * 10 < 4 * wr[2] THEN {12} ELSE {})
        \cup (IF ratio[1] < ratio[2] THEN {13} ELSE {})
        \cup (IF Len(rt) >= 5 /\ last5 >= 4 THEN {20} ELSE {})

Multiplier10(factors) ==
    IF factors = {} THEN 10
    ELSE CHOOSE m \in factors : \A f \in factors : f <= m

\* Line 398: the value the new cooldown is computed from.
CurrentCooldown(cds, direction) ==
    IF cds[direction] = 0 THEN base_cooldown ELSE cds[direction]

\* Mutant of ShouldAdaptCooldown: the raised value is not capped.
ShouldAdaptCooldown_NoCap(cds, direction, rt, cl, cw, mdd) ==
    LET current_cooldown == CurrentCooldown(cds, direction)
        multiplier == Multiplier10(CooldownFactors(rt, cl, mdd))
        raised_cd == (current_cooldown * multiplier) \div 10
        wr == CalculateWinRate(rt, 10)
        ratio == CalculateAvgWinLossRatio(rt)
    IN  IF cw >= 3 THEN Max2((raised_cd * 7) \div 10, base_cooldown)
        ELSE IF wr[1] * 10 > 6 * wr[2] /\ ratio[1] * 2 > 3 * ratio[2]
        THEN Max2((raised_cd * 8) \div 10, base_cooldown)
        ELSE raised_cd

\* Lines 396-444: should_adapt_cooldown, the value stored and returned.
ShouldAdaptCooldown(cds, direction, rt, cl, cw, mdd) ==
    LET current_cooldown == CurrentCooldown(cds, direction)
        multiplier == Multiplier10(CooldownFactors(rt, cl, mdd))
        raised_cd == Min2((current_cooldown * multiplier) \div 10, max_cooldown)
        wr == CalculateWinRate(rt, 10)
        ratio == CalculateAvgWinLossRatio(rt)
    IN  IF cw >= 3 THEN Max2((raised_cd * 7) \div 10, base_cooldown)
        ELSE IF wr[1] * 10 > 6 * wr[2] /\ ratio[1] * 2 > 3 * ratio[2]
        THEN Max2((raised_cd * 8) \div 10, base_cooldown)
        ELSE raised_cd

\* Lines 449-454: the emergency check; account_balance of None or 0 is
\* falsy and skips it.
EmergencyApplies(balance, peak) ==
    /\ balance # NoBalance /\ balance # 0
    /\ peak > 0
    /\ (peak - balance) * 100 > 2 * peak

\* Mutant of StreakApplies: the limit itself does not lock yet.
StreakApplies_OffByOne(cl) == cl > consecutive_loss_limit

\* Line 457.
StreakApplies(cl) == cl >= consecutive_loss_limit

\* The fields of the manager that update_performance reads and writes.
RmState ==
    [recent_trades |-> recent_trades,
     consecutive_losses |-> consecutive_losses,
     consecutive_wins |-> consecutive_wins,
     daily_pnl |-> rm_daily_pnl,
     max_drawdown |-> max_drawdown,
     account_peak |-> account_peak,
     raised |-> FALSE]

\* Mutant of PerformanceAfter: a loss leaves the win counter alone.
PerformanceAfter_NoFlip(s, trade_result, pnl, account_balance) ==
    LET appended == Append(s.recent_trades,
                           [result |-> trade_result, pnl |-> pnl])
        peak == IF account_balance > s.account_peak THEN account_balance
                ELSE s.account_peak
        dd == <<peak - account_balance, peak>>
    IN  [recent_trades |-> IF Len(appended) > HistoryWindow
                           THEN SubSeq(appended,
                                       Len(appended) - HistoryWindow + 1,
                                       Len(appended))
                           ELSE appended,
         consecutive_losses |-> IF trade_result = "LOSS"
                                THEN s.consecutive_losses + 1
                                ELSE IF trade_result = "WIN" THEN 0
                                ELSE s.consecutive_losses,
         consecutive_wins |-> IF trade_result = "WIN"
                              THEN s.consecutive_wins + 1
                              ELSE s.consecutive_wins,
         daily_pnl |-> s.daily_pnl + pnl,
         account_peak |-> peak,
         max_drawdown |-> IF peak = 0 THEN s.max_drawdown
                          ELSE IF dd[1] * s.max_drawdown[2]
                                    > s.max_drawdown[1] * dd[2]
                          THEN dd ELSE s.max_drawdown,
         raised |-> (peak = 0)]

\* Lines 346-372: update_performance applied to the manager state s.
\* (peak - balance) / peak raises ZeroDivisionError when no positive
\* balance has been seen yet; the fields assigned before it keep their
\* new values.
PerformanceAfter(s, trade_result, pnl, account_balance) ==
    LET appended == Append(s.recent_trades,
                           [result |-> trade_result, pnl |-> pnl])
        peak == IF account_balance > s.account_peak THEN account_balance
                ELSE s.account_peak
        dd == <<peak - account_balance, peak>>
    IN  [recent_trades |-> IF Len(appended) > HistoryWindow
                           THEN SubSeq(appended,
                                       Len(appended) - HistoryWindow + 1,
                                       Len(appended))
                           ELSE appended,
         consecutive_losses |-> IF trade_result = "LOSS"
                                THEN s.consecutive_losses + 1
                                ELSE IF trade_result = "WIN" THEN 0
                                ELSE s.consecutive_losses,
         consecutive_wins |-> IF trade_result = "WIN"
                              THEN s.consecutive_wins + 1
                              ELSE IF trade_result = "LOSS" THEN 0
                              ELSE s.consecutive_wins,
         daily_pnl |-> s.daily_pnl + pnl,
         account_peak |-> peak,
         max_drawdown |-> IF peak = 0 THEN s.max_drawdown
                          ELSE IF dd[1] * s.max_drawdown[2]
                                    > s.max_drawdown[1] * dd[2]
                          THEN dd ELSE s.max_drawdown,
         raised |-> (peak = 0)]

\* The manager takes the state s.
RmAssign(s) ==
    /\ recent_trades' = s.recent_trades
    /\ consecutive_losses' = s.consecutive_losses
    /\ consecutive_wins' = s.consecutive_wins
    /\ rm_daily_pnl' = s.daily_pnl
    /\ account_peak' = s.account_peak
    /\ max_drawdown' = s.max_drawdown

\* Lines 346-372.
UpdatePerformance(trade_result, pnl, account_balance) ==
    LET s == PerformanceAfter(RmState, trade_result, pnl, account_balance)
    IN  /\ RmAssign(s)
        /\ rm_last' = [NoResult EXCEPT !.op = "update_performance",
                                       !.raised = s.raised]
        /\ UNCHANGED <<last_trade_time, adaptive_cooldowns, now>>

RmUpdatePerformance ==
    /\ Len(recent_trades) < MaxIngest
    /\ \E pnl \in PnlSet, account_balance \in BalanceSet :
          UpdatePerformance(IF pnl < 0 THEN "LOSS" ELSE "WIN", pnl,
                            account_balance)
    /\ UNCHANGED <<replayVars, v10Vars, streakVars, signalVars,
                 rerunVars, liveVars>>

\* Lines 472-474.
RmRegisterTrade ==
    /\ \E direction \in Directions :
          /\ OnlyDirection(direction)
          /\ last_trade_time' = [last_trade_time EXCEPT ![direction] = now]
          /\ rm_last' = [NoResult EXCEPT !.op = "register_trade",
                                         !.direction = direction]
    /\ UNCHANGED <<recent_trades, consecutive_losses, consecutive_wins,
                   rm_daily_pnl, max_drawdown, account_peak,
                   adaptive_cooldowns, now>>
    /\ UNCHANGED <<replayVars, v10Vars, streakVars, signalVars,
                 rerunVars, liveVars>>

\* A direct call of should_adapt_cooldown.
RmShouldAdaptCooldown ==
    /\ \E direction \in Directions :
          LET v == ShouldAdaptCooldown(adaptive_cooldowns, direction,
                                       recent_trades, consecutive_losses,
                                       consecutive_wins, max_drawdown)
          IN  /\ OnlyDirection(direction)
              /\ adaptive_cooldowns' =
                    [adaptive_cooldowns EXCEPT ![direction] = v]
              /\ rm_last' = [NoResult EXCEPT !.op = "should_adapt_cooldown",
                                             !.direction = direction]
    /\ UNCHANGED <<recent_trades, consecutive_losses, consecutive_wins,
                   rm_daily_pnl, max_drawdown, account_peak,
                   last_trade_time, now>>
    /\ UNCHANGED <<replayVars, v10Vars, streakVars, signalVars,
                 rerunVars, liveVars>>

\* Lines 446-470.
IsLockedOut(direction, account_balance) ==
    LET v == ShouldAdaptCooldown(adaptive_cooldowns, direction,
                                 recent_trades, consecutive_losses,
                                 consecutive_wins, max_drawdown)
        since == (now - last_trade_time[direction]) * 100
        res == [NoResult EXCEPT !.op = "is_locked_out",
                                !.direction = direction,
                                !.balance = account_balance]
    IN  IF EmergencyApplies(account_balance, account_peak)
        THEN /\ rm_last' = [res EXCEPT !.locked = TRUE,
                                       !.reason = "EMERGENCY"]
             /\ UNCHANGED adaptive_cooldowns
        ELSE IF StreakApplies(consecutive_losses)
        THEN /\ rm_last' = [res EXCEPT !.locked = TRUE,
                                       !.reason = "PROTECTION"]
             /\ UNCHANGED adaptive_cooldowns
        ELSE IF last_trade_time[direction] # -1
        THEN /\ adaptive_cooldowns' =
                   [adaptive_cooldowns EXCEPT ![direction] = v]
             /\ rm_last' = IF since < v
                           THEN [res EXCEPT !.locked = TRUE,
                                            !.reason = "Adaptive cooldown"]
                           ELSE res
        ELSE /\ rm_last' = res
             /\ UNCHANGED adaptive_cooldowns

RmIsLockedOut ==
    /\ \E direction \in Directions,
          account_balance \in LockBalanceSet \cup {NoBalance} :
          IsLockedOut(direction, account_balance)
    /\ UNCHANGED <<recent_trades, consecutive_losses, consecutive_wins,
                   rm_daily_pnl, max_drawdown, account_peak,
                   last_trade_time, now>>
    /\ UNCHANGED <<replayVars, v10Vars, streakVars, signalVars,
                 rerunVars, liveVars>>

\* datetime.utcnow() advances between two calls.
RmTick ==
    /\ now + TickMinutes <= MaxTicks * TickMinutes
    /\ now' = now + TickMinutes
    /\ rm_last' = NoResult
    /\ UNCHANGED <<recent_trades, consecutive_losses, consecutive_wins,
                   rm_daily_pnl, max_drawdown, account_peak,
                   last_trade_time, adaptive_cooldowns>>
    /\ UNCHANGED <<replayVars, v10Vars, streakVars, signalVars,
                 rerunVars, liveVars>>

----------------------------------------------------------------------------
(* strategy.py and strategy_v10.py: generate_signal                        *)
(*                                                                         *)
(* In the signal model prices and the ATR are in thousandths of a yen,     *)
(* multipliers, ratios, strengths and scores in tenths, lot sizes in       *)
(* hundredths of a lot and times in units of five minutes.                 *)

MaxSignalBars == 5

SigClose == 150000

SigAtr == 100

\* The time between the last bars of two consecutive frames.
DtSet == {1, 6}

\* Mutant of MinFrame: a frame one bar shorter is accepted.
MinFrame_TooShort(kind) == IF kind = "strategy_backup" THEN 399 ELSE 99

\* Lines 120 of strategy.py, 92 of strategy_v10.py, 231 of
\* strategy_backup.py: the shortest frame a call accepts.
MinFrame(kind) == IF kind = "strategy_backup" THEN 400 ELSE 100

\* The indicator values of the last row, as far as generate_signal tells
\* them apart.
IndicatorRows ==
    [ema : {"up", "down", "mixed"},       \* ema_9, ema_21, ema_50 ordering
     major : {"up", "down"},              \* close against ema_200
     trend_strength : BOOLEAN,            \* adx above the minimum
     volume_ok : BOOLEAN,
     rsi : {30, 40, 60, 70},
     stoch_k : {30, 70},
     stoch_rising : BOOLEAN,              \* stoch_k > stoch_d
     macd : {"bull", "bear"},             \* macd against macd_signal
     di : {"bull", "bear", "none"},       \* DI spread beyond the minimum
     good_volatility : BOOLEAN,
     in_bands : BOOLEAN,                  \* close inside the Bollinger bands
     crossover : {"bull", "bear", "none"}] \* ema_9 crossed ema_21 on this bar

\* A row no candidate qualifies on.
QuietRow ==
    [ema |-> "mixed", major |-> "up", trend_strength |-> FALSE,
     volume_ok |-> FALSE, rsi |-> 60, stoch_k |-> 30, stoch_rising |-> FALSE,
     macd |-> "bull", di |-> "none", good_volatility |-> FALSE,
     in_bands |-> TRUE, crossover |-> "none"]

\* strategy.py reads neither the DI spread nor the crossover.
StrategyRows ==
    {r \in IndicatorRows : r.di = "none" /\ r.crossover = "none"}

\* strategy_v10.py reads the RSI and the stochastic only in the pullback
\* conditions, and the crossover only with the EMAs on the crossed side.
V10Rows ==
    {r \in IndicatorRows :
        /\ r.rsi \in {40, 60}
        /\ r.stoch_rising = FALSE
        /\ (r.crossover = "bull" => r.ema # "down")
        /\ (r.crossover = "bear" => r.ema # "up")}

NoCandidate ==
    [action |-> "HOLD", type |-> "none", mult10 |-> 0, rr10 |-> 0,
     strength10 |-> 0]

Candidate(action, type, mult10, rr10, strength10) ==
    [action |-> action, type |-> type, mult10 |-> mult10, rr10 |-> rr10,
     strength10 |-> strength10]

\* strategy.py 29-30: the stop multiple and the reward ratio of the class.
sl_atr_mult == 30

tp_rr == 40

\* strategy.py 183-267: the signals list, the BUY chain first.
StrategySignals(r) ==
    LET uptrend == r.ema = "up"
        downtrend == r.ema = "down"
        major_uptrend == r.major = "up"
        major_downtrend == r.major = "down"
        rsi_bullish == 35 < r.rsi /\ r.rsi < 75
        rsi_bearish == 25 < r.rsi /\ r.rsi < 65
        stoch_bullish == r.stoch_rising /\ r.stoch_k < 80
        stoch_bearish == ~r.stoch_rising /\ r.stoch_k > 20
        macd_bullish == r.macd = "bull"
        macd_bearish == r.macd = "bear"
        high_conf_bullish ==
            uptrend /\ major_uptrend /\ r.trend_strength /\ r.volume_ok
            /\ rsi_bullish /\ stoch_bullish /\ r.good_volatility
        high_conf_bearish ==
            downtrend /\ major_downtrend /\ r.trend_strength /\ r.volume_ok
            /\ rsi_bearish /\ stoch_bearish /\ r.good_volatility
        med_conf_bullish ==
            uptrend /\ r.trend_strength /\ r.volume_ok /\ rsi_bullish
            /\ macd_bullish /\ r.good_volatility
        med_conf_bearish ==
            downtrend /\ r.trend_strength /\ r.volume_ok /\ rsi_bearish
            /\ macd_bearish /\ r.good_volatility
        pullback_bullish ==
            major_uptrend /\ r.rsi < 45 /\ r.stoch_k < 35 /\ r.in_bands
            /\ r.volume_ok /\ r.good_volatility
        pullback_bearish ==
            major_downtrend /\ r.rsi > 55 /\ r.stoch_k > 65 /\ r.in_bands
            /\ r.volume_ok /\ r.good_volatility
        buy == IF high_conf_bullish
               THEN <<Candidate("BUY", "High Confidence", sl_atr_mult,
                                tp_rr, 16)>>
               ELSE IF pullback_bullish
               THEN <<Candidate("BUY", "Pullback", 25, tp_rr, 13)>>
               ELSE IF med_conf_bullish
               THEN <<Candidate("BUY", "Medium Confidence", sl_atr_mult,
                                tp_rr, 14)>>
               ELSE << >>
        sell == IF high_conf_bearish
                THEN <<Candidate("SELL", "High Confidence", sl_atr_mult,
                                 tp_rr, 16)>>
                ELSE IF pullback_bearish
                THEN <<Candidate("SELL", "Pullback", 25, tp_rr, 13)>>
                ELSE IF med_conf_bearish
                THEN <<Candidate("SELL", "Medium Confidence", sl_atr_mult,
                                 tp_rr, 14)>>
                ELSE << >>
    IN  buy \o sell

\* strategy_v10.py 167-314: the signals list, built with the multiple and
\* the ratio of the configuration c.
V10Signals(r, c) ==
    LET uptrend == r.ema = "up"
        downtrend == r.ema = "down"
        major_uptrend == r.major = "up"
        major_downtrend == r.major = "down"
        di_bullish == r.di = "bull"
        di_bearish == r.di = "bear"
        macd_bullish == r.macd = "bull"
        macd_bearish == r.macd = "bear"
        high_conf_bullish ==
            uptrend /\ major_uptrend /\ r.trend_strength /\ r.volume_ok
            /\ di_bullish /\ macd_bullish
        high_conf_bearish ==
            downtrend /\ major_downtrend /\ r.trend_strength /\ r.volume_ok
            /\ di_bearish /\ macd_bearish
        med_conf_bullish == uptrend /\ r.trend_strength
        med_conf_bearish == downtrend /\ r.trend_strength
        pullback_bullish ==
            major_uptrend /\ r.rsi < 45 /\ r.stoch_k < 35 /\ r.in_bands
            /\ r.volume_ok /\ r.good_volatility
        pullback_bearish ==
            major_downtrend /\ r.rsi > 55 /\ r.stoch_k > 65 /\ r.in_bands
            /\ r.volume_ok /\ r.good_volatility
        buy == IF high_conf_bullish
               THEN <<Candidate("BUY", "High Confidence", c.mult10, c.rr10,
                                60)>>
               ELSE IF pullback_bullish
               THEN <<Candidate("BUY", "Pullback", c.mult10, c.rr10, 45)>>
               ELSE IF med_conf_bullish
               THEN <<Candidate("BUY", "Medium Confidence", c.mult10,
                                c.rr10, 50)>>
               ELSE << >>
        sell == IF high_conf_bearish
                THEN <<Candidate("SELL", "High Confidence", c.mult10,
                                 c.rr10, 60)>>
                ELSE IF pullback_bearish
                THEN <<Candidate("SELL", "Pullback", c.mult10, c.rr10, 45)>>
                ELSE IF med_conf_bearish
                THEN <<Candidate("SELL", "Medium Confidence", c.mult10,
                                 c.rr10, 50)>>
                ELSE << >>
    IN  buy \o sell

\* strategy_v10.py 321-366: the crossover fallback, BUY tested first.
V10Fallback(r, c) ==
    IF r.crossover = "bull" /\ r.macd = "bull"
    THEN Candidate("BUY", "Crossover", c.mult10, c.rr10, 20)
    ELSE IF r.crossover = "bear" /\ r.macd = "bear"
    THEN Candidate("SELL", "Crossover", c.mult10, c.rr10, 20)
    ELSE NoCandidate

\* signals.sort(key=strength, reverse=True); signals[0].  The sort is
\* stable: of two equal candidates the first of the list stays first.
RECURSIVE Strongest(_)
Strongest(signals) ==
    IF Len(signals) = 1 THEN signals[1]
    ELSE LET rest == Strongest(Tail(signals))
         IN  IF rest.strength10 > signals[1].strength10 THEN rest
             ELSE signals[1]

\* entry, sl and tp of a candidate on a bar closing at close with ATR atr.
Levels(k, close, atr) ==
    LET dist == (atr * k.mult10) \div 10
        tdist == (atr * k.mult10 * k.rr10) \div 100
    IN  IF k.action = "BUY"
        THEN [entry |-> close, sl |-> close - dist, tp |-> close + tdist]
        ELSE IF k.action = "SELL"
        THEN [entry |-> close, sl |-> close + dist, tp |-> close - tdist]
        ELSE [entry |-> 0, sl |-> 0, tp |-> 0]

\* strategy.py 55-69: calculate_position_size, hundredths of a lot, with
\* the balance in dollars and the strength in tenths.
StrategyPositionSize(account_balance, entry_price, stop_loss, strength10) ==
    LET dist == Abs(entry_price - stop_loss)
        lots100 == (2 * account_balance * strength10 + 10 * dist)
                       \div (20 * dist)
    IN  IF dist = 0 THEN 1
        ELSE Max2(1, Min2(lots100, 80))

\* What a generate_signal call leaves behind: its result and the locals
\* the result was decided from.
NoSigCall ==
    [action |-> "NONE", type |-> "none", reason |-> "", entry |-> 0,
     sl |-> 0, tp |-> 0, size |-> 0, bar_cooldown_ok |-> FALSE,
     time_cooldown_ok |-> FALSE, signals |-> << >>, cross_fresh |-> FALSE,
     alignment |-> FALSE, other_gates |-> FALSE]

Hold(reason) == [NoSigCall EXCEPT !.action = "HOLD", !.reason = reason]

Emit(k, lv, size) ==
    [NoSigCall EXCEPT !.action = k.action, !.type = k.type,
                      !.entry = lv.entry, !.sl = lv.sl, !.tp = lv.tp,
                      !.size = size]

\* strategy.py 37 and 275: the floor of the size and the default balance.
min_position_size == 1

StrategyBalance == 10000

\* strategy.py 119-303: generate_signal on a frame of len_df bars whose
\* last row is r, at time current_time.
StrategyGenerateSignal(len_df, current_time, session_ok, r, atr) ==
    LET bar_cooldown_ok == BarCooldownOk(len_df, StrategyCooldownBars)
        time_cooldown_ok == TimeCooldownOk(current_time, StrategyMinHours)
        signals == StrategySignals(r)
        k == Strongest(signals)
        lv == Levels(k, SigClose, atr)
        position_size ==
            StrategyPositionSize(StrategyBalance, lv.entry, lv.sl,
                                 k.strength10)
        gates(c) == [c EXCEPT !.bar_cooldown_ok = bar_cooldown_ok,
                              !.time_cooldown_ok = time_cooldown_ok]
    IN  IF len_df < MinFrame("strategy")
        THEN /\ sig_call' = Hold("Insufficient data")
             /\ UNCHANGED <<last_signal_idx, last_signal_time>>
        ELSE IF ~session_ok
        THEN /\ sig_call' = Hold("Outside trading session")
             /\ UNCHANGED <<last_signal_idx, last_signal_time>>
        ELSE IF ~CooldownOk(bar_cooldown_ok, time_cooldown_ok)
        THEN /\ sig_call' = gates(Hold("Cooldown period"))
             /\ UNCHANGED <<last_signal_idx, last_signal_time>>
        ELSE IF signals = << >>
        THEN /\ sig_call' = gates(Hold("No setup"))
             /\ UNCHANGED <<last_signal_idx, last_signal_time>>
        ELSE IF position_size < min_position_size
        THEN /\ sig_call' = gates([Hold("Position size too small")
                                      EXCEPT !.signals = signals])
             /\ UNCHANGED <<last_signal_idx, last_signal_time>>
        ELSE /\ sig_call' = gates([Emit(k, lv, position_size)
                                      EXCEPT !.signals = signals])
             /\ last_signal_idx' = len_df - 1
             /\ last_signal_time' = current_time

\* The rows a call can tell apart: the last row is read only after the
\* length, session and cooldown checks.
RowsRead(rows, reads) == IF reads THEN rows ELSE {QuietRow}

\* A caller appends a bar to the frame and asks the strategy of strategy.py.
SigStrategyCall ==
    /\ strat = "strategy"
    /\ sig_len < MinFrame(strat) - 2 + MaxSignalBars
    /\ \E dt \in DtSet, session_ok \in BOOLEAN :
         LET len_df == sig_len + 1
             current_time == sig_time + dt
             reads ==
                /\ len_df >= MinFrame(strat)
                /\ session_ok
                /\ CooldownOk(BarCooldownOk(len_df, StrategyCooldownBars),
                              TimeCooldownOk(current_time, StrategyMinHours))
         IN  \E r \in RowsRead(StrategyRows, reads) :
                /\ sig_len' = len_df
                /\ sig_time' = current_time
                /\ StrategyGenerateSignal(len_df, current_time, session_ok,
                                          r, SigAtr)
    /\ UNCHANGED <<strat, strat_cfg>>
    /\ UNCHANGED <<replayVars, v10Vars, riskVars, streakVars,
                 rerunVars, liveVars>>

\* strategy_v10.py 88-384: generate_signal.  bars_since_last is the number
\* of rows of the frame later than last_trade_time, NoTime when the caller
\* passes no last_trade_time.
V10GenerateSignal(len_df, session_ok, bars_since_last, r, atr, c) ==
    LET signals == V10Signals(r, c)
        k == IF signals # << >> THEN Strongest(signals)
             ELSE V10Fallback(r, c)
        lv == Levels(k, SigClose, atr)
        cool(x) == [x EXCEPT !.bar_cooldown_ok =
                                 (bars_since_last = NoTime
                                    \/ bars_since_last >= V10CooldownBars)]
    IN  IF len_df < MinFrame("strategy_v10")
        THEN Hold("Insufficient data")
        ELSE IF ~session_ok
        THEN Hold("Outside trading session")
        ELSE IF bars_since_last # NoTime /\ bars_since_last < V10CooldownBars
        THEN cool(Hold("Cooldown period"))
        ELSE IF k.action = "HOLD"
        THEN cool(Hold("No setup"))
        ELSE cool([Emit(k, lv, 0) EXCEPT !.signals = signals])

\* A caller appends a bar to the frame and asks the PhantomNodeV10 object,
\* with or without a last_trade_time.
SigV10Call ==
    /\ strat = "strategy_v10"
    /\ sig_len < MinFrame(strat) - 2 + MaxSignalBars
    /\ \E session_ok \in BOOLEAN,
          bars_since_last \in {NoTime, V10CooldownBars - 1, V10CooldownBars} :
         LET len_df == sig_len + 1
             reads ==
                /\ len_df >= MinFrame(strat)
                /\ session_ok
                /\ (bars_since_last = NoTime
                      \/ bars_since_last >= V10CooldownBars)
         IN  \E r \in RowsRead(V10Rows, reads) :
                /\ sig_len' = len_df
                /\ sig_time' = sig_time + M15
                /\ sig_call' = V10GenerateSignal(len_df, session_ok,
                                                 bars_since_last, r, SigAtr,
                                                 strat_cfg)
    /\ UNCHANGED <<strat, strat_cfg, last_signal_idx, last_signal_time>>
    /\ UNCHANGED <<replayVars, v10Vars, riskVars, streakVars,
                 rerunVars, liveVars>>

----------------------------------------------------------------------------
(* strategy_backup.py: UsdJpyQuantStrategy._generate_original_signal       *)

\* The configurations of the signal model: rr_ratio, atr_multiplier_sl,
\* signal_cooldown (bars), min_hours_between_trades (units of five
\* minutes), aggressive_mode and risk_per_trade (hundredths of a percent).
SigCfgSet(kind) ==
    [rr10 : {25}, mult10 : {15}, signal_cooldown : {2}, min_hours : {6},
     aggressive_mode : IF kind = "strategy_backup" THEN BOOLEAN ELSE {FALSE},
     risk_bp : IF kind = "strategy_backup" THEN {1, 100} ELSE {100}]

\* The ATR of the rows handed to strategy_backup.py (0.8 yen).
BackupAtr == 800

\* The last rows of the frame as far as the decision tells them apart.  The
\* H1 filter passes for one direction at most (close above or below
\* h1_ema200); the fields below are those of that direction.
BackupRows ==
    [h1 : {"long", "short", "none"},
     adx : {18, 24, 30},          \* adx14: below the minimum, above it, above 25
     di_with : BOOLEAN,           \* the DI pair points in the H1 direction
     adx_rising : BOOLEAN,
     atr_expansion_ok : BOOLEAN,
     chop_ok : BOOLEAN,
     cross_fresh : BOOLEAN,       \* a cross in that direction within the window
     aligned : BOOLEAN,           \* ema9 on that side of ema21
     pb : BOOLEAN,
     mom : BOOLEAN,
     bos : BOOLEAN]

QuietBackupRow ==
    [h1 |-> "none", adx |-> 18, di_with |-> FALSE, adx_rising |-> FALSE,
     atr_expansion_ok |-> FALSE, chop_ok |-> FALSE, cross_fresh |-> FALSE,
     aligned |-> FALSE, pb |-> FALSE, mom |-> FALSE, bos |-> FALSE]

\* Lines 404-405: the regime filters of the H1 direction.
BackupFiltersPass(r) ==
    /\ r.h1 # "none"
    /\ r.adx >= 22 /\ r.di_with
    /\ (r.adx > 25 \/ r.adx_rising)
    /\ r.atr_expansion_ok
    /\ r.chop_ok

\* The rows a call can tell apart.  The decision of lines 515 and 558 is
\* can_trade and filters_pass and (...): the entry gates count only when
\* the call can trade and the regime filters pass, and ADX rising only
\* while ADX is not above 25.
BackupRowsRead(reads) ==
    IF reads
    THEN {r \in BackupRows :
             /\ (r.h1 = "none" => r = QuietBackupRow)
             /\ (r.adx > 25 => ~r.adx_rising)
             /\ (~BackupFiltersPass(r) =>
                    ~(r.cross_fresh \/ r.aligned \/ r.pb \/ r.mom \/ r.bos))}
    ELSE {QuietBackupRow}

\* strategy_backup.py 76-91: calculate_position_size; TRUE when the size is
\* at most 0.01 lot (line 529).  risk_amount is 10000 * risk_pct dollars,
\* risk_pips is 100 pips per yen, pip_value 0.88.
BackupSizeTooSmall(risk_bp, entry, sl) ==
    LET dist == Abs(entry - sl)
    IN  IF entry = 0 \/ sl = 0 \/ dist = 0 THEN TRUE
        ELSE risk_bp * 100000 <= 88 * dist

\* Lines 230-627.  precheck is "hours", "volatility" (the two early returns
\* of lines 238 and 255) or "ok".
BackupGenerateSignal(len_df, current_time, precheck, r, atr, c) ==
    LET t == len_df - 1
        adx_strength_ok == r.adx >= 22 /\ r.di_with /\ r.h1 # "none"
        filters_pass == BackupFiltersPass(r)
        alignment == r.aligned /\ adx_strength_ok /\ r.adx > 25
        turbo == c.aggressive_mode /\ r.cross_fresh /\ r.mom
                 /\ adx_strength_ok /\ r.atr_expansion_ok
        bar_cooldown_ok == BarCooldownOk(len_df, c.signal_cooldown)
        time_cooldown_ok == TimeCooldownOk(current_time, c.min_hours)
        can_trade == CooldownOk(bar_cooldown_ok, time_cooldown_ok)
        decided ==
            can_trade /\ filters_pass
            /\ ((r.cross_fresh /\ r.pb /\ r.mom /\ r.bos) \/ turbo)
        k == Candidate(IF r.h1 = "long" THEN "BUY" ELSE "SELL", "Quant",
                       c.mult10, c.rr10, 0)
        lv == Levels(k, SigClose, atr)
        locals(x) ==
            [x EXCEPT !.bar_cooldown_ok = bar_cooldown_ok,
                      !.time_cooldown_ok = time_cooldown_ok,
                      !.cross_fresh = r.cross_fresh,
                      !.alignment = alignment,
                      !.other_gates = filters_pass /\ r.pb /\ r.mom /\ r.bos]
    IN  IF len_df < MinFrame("strategy_backup")
        THEN /\ sig_call' = Hold("Need 400 bars")
             /\ UNCHANGED <<last_signal_idx, last_signal_time>>
        ELSE IF precheck = "hours"
        THEN /\ sig_call' = Hold("Outside trading hours")
             /\ UNCHANGED <<last_signal_idx, last_signal_time>>
        ELSE IF precheck = "volatility"
        THEN /\ sig_call' = Hold("Low volatility")
             /\ UNCHANGED <<last_signal_idx, last_signal_time>>
        ELSE IF decided
        THEN /\ last_signal_idx' = t
             /\ last_signal_time' = current_time
             /\ sig_call' =
                   IF BackupSizeTooSmall(c.risk_bp, lv.entry, lv.sl)
                   THEN locals(Hold("Position size too small"))
                   ELSE locals(Emit(k, lv, 2))
        ELSE /\ sig_call' = locals(Hold("QUANT"))
             /\ UNCHANGED <<last_signal_idx, last_signal_time>>

\* A caller appends a bar to the frame and asks the strategy of
\* strategy_backup.py.
SigBackupCall ==
    /\ strat = "strategy_backup"
    /\ sig_len < MinFrame(strat) - 2 + MaxSignalBars
    /\ \E dt \in DtSet, precheck \in {"ok", "hours", "volatility"} :
         LET len_df == sig_len + 1
             current_time == sig_time + dt
             reads ==
                /\ len_df >= MinFrame(strat)
                /\ precheck = "ok"
                /\ CooldownOk(
                      BarCooldownOk(len_df, strat_cfg.signal_cooldown),
                      TimeCooldownOk(current_time, strat_cfg.min_hours))
         IN  \E r \in BackupRowsRead(reads) :
                /\ sig_len' = len_df
                /\ sig_time' = current_time
                /\ BackupGenerateSignal(len_df, current_time, precheck, r,
                                        BackupAtr, strat_cfg)
    /\ UNCHANGED <<strat, strat_cfg>>
    /\ UNCHANGED <<replayVars, v10Vars, riskVars, streakVars,
                 rerunVars, liveVars>>

----------------------------------------------------------------------------
(* main.py: PerformanceTracker.update_streak and the transaction log       *)
(*                                                                         *)
(* The broker's log holds ORDER_FILL transactions, oldest first.  A fill   *)
(* that opens a position has pl = 0, one that closes it has the realised   *)
(* profit or loss.  The main loop calls update_streak on every pass made   *)
(* in the first seconds of a quarter hour.                                 *)

MaxTxs == 3
MaxStreakRuns == 2
TxWindow == 20
TxPlSet == {-20, 0, 10}

\* The last count=20 transactions of the log (line 270).
LastTransactions(log) ==
    IF Len(log) > TxWindow
    THEN SubSeq(log, Len(log) - TxWindow + 1, Len(log))
    ELSE log

\* Lines 283-298: the loop over the fetched transactions, from index i, with
\* the manager in state s.  An exception of update_performance leaves the
\* loop; a winning fill ends it after it has been handed to the manager.
RECURSIVE StreakLoop(_, _, _, _, _, _)
StreakLoop(fetched, i, s, losses, daily_loss_count, current_balance) ==
    IF i > Len(fetched)
    THEN [s |-> s, losses |-> losses, daily |-> daily_loss_count,
          raised |-> FALSE]
    ELSE LET tx == fetched[i]
             s1 == IF tx.pl # 0
                   THEN PerformanceAfter(s, IF tx.pl < 0 THEN "LOSS"
                                            ELSE "WIN",
                                         tx.pl, current_balance)
                   ELSE s
         IN  IF s1.raised
             THEN [s |-> s1, losses |-> losses, daily |-> daily_loss_count,
                   raised |-> TRUE]
             ELSE IF tx.pl < 0
             THEN StreakLoop(fetched, i + 1, s1, losses + 1,
                             IF tx.today THEN daily_loss_count + 1
                             ELSE daily_loss_count,
                             current_balance)
             ELSE IF tx.pl > 0
             THEN [s |-> s1, losses |-> losses, daily |-> daily_loss_count,
                   raised |-> FALSE]
             ELSE StreakLoop(fetched, i + 1, s1, losses, daily_loss_count,
                             current_balance)

\* Lines 267-311.  status_ok is res.status_code == 200; current_balance is
\* the balance of the account summary, 0 when the summary is None.
UpdateStreak(status_ok, current_balance) ==
    IF ~status_ok
    THEN /\ streak_status' = "http_error"
         /\ UNCHANGED <<pt_consecutive_losses, pt_daily_losses,
                        risk_reduction_active, recent_trades,
                        consecutive_losses, consecutive_wins, rm_daily_pnl,
                        max_drawdown, account_peak>>
    ELSE LET r == StreakLoop(LastTransactions(txs), 1, RmState, 0, 0,
                             current_balance)
         IN  /\ RmAssign(r.s)
             /\ IF r.raised
                THEN /\ streak_status' = "exception"
                     /\ UNCHANGED <<pt_consecutive_losses, pt_daily_losses,
                                    risk_reduction_active>>
                ELSE /\ streak_status' = "done"
                     /\ pt_consecutive_losses' = r.losses
                     /\ pt_daily_losses' = r.daily
                     /\ risk_reduction_active' = (r.losses >= 2)

\* main.py 870-872: the periodic call.
PtUpdateStreak ==
    /\ streak_runs < MaxStreakRuns
    /\ streak_runs' = streak_runs + 1
    /\ \E status_ok \in BOOLEAN, current_balance \in BalanceSet :
          UpdateStreak(status_ok, current_balance)
    /\ UNCHANGED <<txs, last_trade_time, adaptive_cooldowns, now, rm_last>>
    /\ UNCHANGED <<replayVars, v10Vars, signalVars,
                 rerunVars, liveVars>>

\* The broker executes a fill and appends it to the log.
BrokerFill ==
    /\ Len(txs) < MaxTxs
    /\ \E pl \in TxPlSet, today \in BOOLEAN :
          txs' = Append(txs, [pl |-> pl, today |-> today])
    /\ streak_status' = "none"
    /\ UNCHANGED <<pt_consecutive_losses, pt_daily_losses,
                   risk_reduction_active, streak_runs>>
    /\ UNCHANGED <<replayVars, v10Vars, riskVars, signalVars,
                 rerunVars, liveVars>>

----------------------------------------------------------------------------
(* Initial states *)

\* backtest_cli.py 51-58, optimize_fast.py 16-21, backtester.py 10-11, 30.
ReplayInit ==
    /\ engine \in {"cli", "fast", "vec", "v10"}
    /\ cfg \in CfgSet \cup {V10Cfg}
    /\ (engine # "v10") => cfg \in CfgSet
    /\ cfg.target_start = (IF engine = "cli" THEN 1 ELSE 0)
    /\ cfg.risk_pct = (IF engine = "fast" THEN 5 ELSE 1)
    /\ (engine = "v10") => cfg = V10Cfg
    /\ bars = 0
    /\ day = 0
    /\ last_date = NoDate
    /\ equity \in (IF engine = "v10" THEN {V10InitialBalance}
                  ELSE IF engine = "cli" THEN CliInitialEquity
                  ELSE {InitialEquity})
    /\ daily_pnl = 0
    /\ active_trade = NoTrade
    /\ trades = << >>
    /\ equity_curve = << >>
    /\ bar = NoBar

V10Init ==
    /\ position = NoPos
    /\ v10_time = 0
    /\ v10_last_trade = 0
    /\ v10_events = << >>
    /\ v10_call = NoCall
    /\ v10_end = "running"

RiskInit ==
    /\ recent_trades = << >>
    /\ consecutive_losses = 0
    /\ consecutive_wins = 0
    /\ rm_daily_pnl = 0
    /\ max_drawdown = <<0, 1>>
    /\ account_peak = 0
    /\ last_trade_time = [d \in {"BUY", "SELL"} |-> -1]
    /\ adaptive_cooldowns = [d \in {"BUY", "SELL"} |-> 0]
    /\ now = 0
    /\ rm_last = NoResult

\* main.py 259-265.
StreakInit ==
    /\ txs = << >>
    /\ pt_consecutive_losses = 0
    /\ pt_daily_losses = 0
    /\ risk_reduction_active = FALSE
    /\ streak_runs = 0
    /\ streak_status = "none"

\* No strategy object of the signal model takes part in the run.
SignalIdle ==
    /\ strat = "none"
    /\ strat_cfg = CHOOSE c \in SigCfgSet("strategy") : TRUE
    /\ last_signal_idx = -1
    /\ last_signal_time = NoTime
    /\ sig_len = 0
    /\ sig_time = 0
    /\ sig_call = NoSigCall

----------------------------------------------------------------------------
(* main.py: calc_units_usdjpy                                              *)
(*                                                                         *)
(* Balances are in dollars, risk fractions in millionths, prices in        *)
(* hundredths of a yen (pips); entries are whole yen.                      *)

\* Python's round() of base + num / den for num >= 0, den > 0: to the
\* nearest integer, a tie to the even one.
RoundHalfEven(base, num, den) ==
    LET q == base + (num \div den)
        twice == 2 * (num % den)
    IN  IF twice < den THEN q
        ELSE IF twice > den THEN q + 1
        ELSE IF q % 2 = 0 THEN q ELSE q + 1

\* Line 133: raw = risk_amount * entry / sl_dist, rounded (line 140).  With
\* the risk amount x in millionths of a dollar and the entry E in yen the
\* quotient is x * E / (10000 * sl_dist), taken in two parts to stay within
\* 32 bits.
RoundedRaw(risk_amount, entry, sl_dist) ==
    LET den == 10000 * sl_dist
        E == entry \div 100
    IN  RoundHalfEven((risk_amount \div den) * E, (risk_amount % den) * E, den)

\* Lines 126-141.
CalcUnitsUsdJpy(balance, risk_pct, entry, sl, action) ==
    LET sl_dist == Abs(entry - sl)
        risk_amount == balance * risk_pct
        max_units_by_balance == Min2(100000, balance * 20)
        max_units_by_risk == Min2(50000, TDiv(risk_amount, 1000))
        units == Max2(1, Min2(max_units_by_balance,
                              Min2(max_units_by_risk,
                                   RoundedRaw(risk_amount, entry, sl_dist))))
    IN  IF sl_dist <= 0 THEN 0
        ELSE IF action = "BUY" THEN units ELSE -units

\* A dollar, and accounts of 1,000 and 10,000 dollars.
UnitsBalanceSet == {1, 1000, 10000}

\* RISK_PER_TRADE 0.01 under the throttles of main.py 816-836
\* (0.25 * 0.5 * 0.5), plain, and doubled.
UnitsRiskSet == {625, 10000, 20000}

UnitsEntrySet == {10000, 15000}

\* Stop distances: none, 1 pip, 7 pips, 30 pips, 3 yen.
UnitsDistSet == {0, 1, 7, 30, 300}

NoUnitsCall == [balance |-> 0, risk_pct |-> 0, entry |-> 0, sl |-> 0,
                action |-> "NONE", units |-> 0]

\* main.py 837: the live loop sizes an order.
CalcUnitsCall ==
    /\ \E balance \in UnitsBalanceSet, risk_pct \in UnitsRiskSet,
          entry \in UnitsEntrySet, dist \in UnitsDistSet,
          action \in {"BUY", "SELL"} :
          LET sl == IF action = "BUY" THEN entry - dist ELSE entry + dist
          IN  units_call' =
                  [balance |-> balance, risk_pct |-> risk_pct,
                   entry |-> entry, sl |-> sl, action |-> action,
                   units |-> CalcUnitsUsdJpy(balance, risk_pct, entry, sl,
                                             action)]
    /\ UNCHANGED <<broker_trades, sl_sent, pm_scan, scans, ts_call, loopVars>>
    /\ UNCHANGED <<replayVars, v10Vars, riskVars, streakVars, signalVars,
                   rerunVars>>

----------------------------------------------------------------------------
(* strategy_backup.py, strategy_backup_optimized.py: check_time_stop       *)
(*                                                                         *)
(* Prices are in thousandths of a yen, times in hours, R in tenths.        *)

\* strategy_backup.py 62-64: the defaults of the time stop.
time_stop_hours == 8

time_stop_min_rr == 15

NoPrice == 0

\* Lines 213-218: current_rr >= time_stop_min_rr, for a position whose stop
\* is on the losing side of its entry.  A position without 'current_price'
\* is valued at its entry.
RrAtLeast(action, entry_price, sl, current_price, min_rr10) ==
    LET price == IF current_price = NoPrice THEN entry_price
                 ELSE current_price
    IN  IF action = "BUY"
        THEN (price - entry_price) * 10 >= min_rr10 * (entry_price - sl)
        ELSE (entry_price - price) * 10 >= min_rr10 * (sl - entry_price)

\* strategy_backup.py 189-224, strategy_backup_optimized.py 168-182.
CheckTimeStop(enabled, action, sl, current_price, time_elapsed, entry_price) ==
    IF ~enabled THEN FALSE
    ELSE IF time_elapsed >= time_stop_hours
    THEN RrAtLeast(action, entry_price, sl, current_price, time_stop_min_rr)
    ELSE FALSE

TsElapsedSet == {0, 7, 8, 9, 12}

\* The profit of the position at its current price, for a stop 300 away:
\* -1R, 0, 1R, 1.5R and 2R.
TsProfitSet == {-300, 0, 300, 450, 600}

TsEntry == 150000

TsStopDist == 300

NoTsCall == [enabled |-> FALSE, action |-> "NONE", entry |-> 0, sl |-> 0,
             current_price |-> NoPrice, time_elapsed |-> 0, exit |-> FALSE]

\* A caller asks whether the time stop applies to its position.
CheckTimeStopCall ==
    /\ \E enabled \in BOOLEAN, action \in {"BUY", "SELL"},
          has_price \in BOOLEAN, profit \in TsProfitSet,
          time_elapsed \in TsElapsedSet :
          LET sl == IF action = "BUY" THEN TsEntry - TsStopDist
                    ELSE TsEntry + TsStopDist
              current_price ==
                  IF ~has_price THEN NoPrice
                  ELSE IF action = "BUY" THEN TsEntry + profit
                  ELSE TsEntry - profit
          IN  ts_call' =
                  [enabled |-> enabled, action |-> action,
                   entry |-> TsEntry, sl |-> sl,
                   current_price |-> current_price,
                   time_elapsed |-> time_elapsed,
                   exit |-> CheckTimeStop(enabled, action, sl, current_price,
                                          time_elapsed, TsEntry)]
    /\ UNCHANGED <<units_call, broker_trades, sl_sent, pm_scan, scans,
                   loopVars>>
    /\ UNCHANGED <<replayVars, v10Vars, riskVars, streakVars, signalVars,
                   rerunVars>>

----------------------------------------------------------------------------
(* main.py: PositionManager.sync_and_manage                                *)
(*                                                                         *)
(* Prices and the ATR are in thousandths of a yen, so a pip is 10; the     *)
(* clock is in minutes.                                                    *)

MaxScans == 3

\* Line 541: broker.config.get('atr_multiplier_sl', 3.5), in tenths.
PmAtrMult10 == 35

PmEntry == 150000

\* Line 544: profit, for the closes the scans are fed: a loss, flat, 2, 6,
\* 12.2, 13, 26 and 41 pips.
PmProfitSet == {-100, 0, 20, 60, 122, 130, 260, 410}

\* Line 539: the ATR of the candle.
PmAtrSet == {0, 20}

\* The time that passes between two scans, minutes.
PmDtSet == {0, 240}

\* Line 545: current_r = profit / one_r if one_r > 0 else 0, compared with
\* num / den; one_r10 is ten times one_r.
RLess(profit, one_r10, num, den) ==
    IF one_r10 > 0 THEN 10 * profit * den < num * one_r10 ELSE 0 < num

\* abs(current_r) < num / den.
AbsRLess(profit, one_r10, num, den) == RLess(Abs(profit), one_r10, num, den)

\* Mutant of TimeStop: after 8 hours the trade is closed whatever its R.
TimeStop_NoRunner(time_in_trade, profit, one_r10) ==
    IF 240 <= time_in_trade /\ time_in_trade < 480
          /\ RLess(profit, one_r10, 1, 1) /\ AbsRLess(profit, one_r10, 1, 5)
    THEN "4h FLAT KILL"
    ELSE IF time_in_trade >= 480
    THEN "8h HARD KILL"
    ELSE "none"

\* Lines 550-567: the time stops; time_in_trade in minutes.
TimeStop(time_in_trade, profit, one_r10) ==
    IF 240 <= time_in_trade /\ time_in_trade < 480
          /\ RLess(profit, one_r10, 1, 1) /\ AbsRLess(profit, one_r10, 1, 5)
    THEN "4h FLAT KILL"
    ELSE IF time_in_trade >= 480 /\ RLess(profit, one_r10, 3, 2)
    THEN "8h HARD KILL"
    ELSE "none"

\* Lines 584-589: the trailing gap for a profit, both in thousandths.
SmartGap(profit) ==
    IF profit >= 400 THEN 80
    ELSE IF profit >= 250 THEN 100
    ELSE 120

\* Lines 569-597: the stop prices the two trailing stages send for trade tr
\* at the close, in order.  Both stages compare with current_sl, the stop
\* read from the broker when the scan began (line 536).
TrailSends(tr, close) ==
    LET buy == tr.direction = "BUY"
        profit == IF buy THEN close - tr.entry ELSE tr.entry - close
        current_sl == tr.sl
        roi_protect_price == IF buy THEN tr.entry + 5 ELSE tr.entry - 5
        stage1 == /\ profit >= 50
                  /\ IF buy THEN current_sl < roi_protect_price
                     ELSE current_sl = 0 \/ current_sl > roi_protect_price
        potential_sl == IF buy THEN close - SmartGap(profit)
                        ELSE close + SmartGap(profit)
        stage2 == /\ profit >= 120
                  /\ IF buy THEN potential_sl > current_sl
                     ELSE current_sl = 0 \/ potential_sl < current_sl
    IN  (IF stage1 THEN <<roi_protect_price>> ELSE << >>)
        \o (IF stage2 THEN <<potential_sl>> ELSE << >>)

\* Lines 529-597 for one trade: what the scan saw, the requests it sent
\* and what the broker holds afterwards.  close_ok and sl_ok say whether
\* the broker accepts the close and the stop updates of this scan.
ManageTrade(tr, close, atr, now_utc, close_ok, sl_ok) ==
    LET profit == IF tr.direction = "BUY" THEN close - tr.entry
                  ELSE tr.entry - close
        one_r10 == PmAtrMult10 * atr
        time_in_trade == now_utc - tr.open_time
        kill == TimeStop(time_in_trade, profit, one_r10)
        sends == IF kill # "none" THEN << >> ELSE TrailSends(tr, close)
    IN  [seen |-> [id |-> tr.id, time_in_trade |-> time_in_trade,
                   profit |-> profit, one_r10 |-> one_r10, kill |-> kill],
         sends |-> sends,
         gone |-> kill # "none" /\ close_ok,
         trade |-> IF sl_ok /\ sends # << >>
                   THEN [tr EXCEPT !.sl = sends[Len(sends)]]
                   ELSE tr]

\* The sends of one trade appended to the log of its id.
LogSends(log, id, sends) ==
    IF sends = << >> THEN log
    ELSE [k \in DOMAIN log \cup {id} |->
            IF k = id
            THEN (IF id \in DOMAIN log THEN log[id] ELSE << >>) \o sends
            ELSE log[k]]

\* Lines 526-597: the loop over the open trades, from the k-th on.
RECURSIVE SyncLoop(_, _, _, _, _, _, _, _)
SyncLoop(ts, k, close, atr, now_utc, close_ok, sl_ok, acc) ==
    IF k > Len(ts) THEN acc
    ELSE LET m == ManageTrade(ts[k], close, atr, now_utc, close_ok, sl_ok)
         IN  SyncLoop(ts, k + 1, close, atr, now_utc, close_ok, sl_ok,
                      [trades |-> IF m.gone THEN acc.trades
                                  ELSE Append(acc.trades, m.trade),
                       sent |-> LogSends(acc.sent, ts[k].id, m.sends),
                       seen |-> Append(acc.seen, m.seen)])

\* sync_and_manage(instrument, current_candle) at time now_utc.
SyncAndManage(close, atr, now_utc, close_ok, sl_ok) ==
    LET r == SyncLoop(broker_trades, 1, close, atr, now_utc, close_ok, sl_ok,
                      [trades |-> << >>, sent |-> sl_sent, seen |-> << >>])
    IN  /\ broker_trades' = r.trades
        /\ sl_sent' = r.sent
        /\ pm_scan' = r.seen

\* main.py 775: a scan of the live loop hands the last candle to the
\* manager.
PmScan ==
    /\ scans < MaxScans
    /\ broker_trades # << >>
    /\ scans' = scans + 1
    /\ \E p \in PmProfitSet, atr \in PmAtrSet, dt \in PmDtSet,
          close_ok \in BOOLEAN, sl_ok \in BOOLEAN :
          LET close == IF broker_trades[1].direction = "BUY"
                       THEN PmEntry + p ELSE PmEntry - p
          IN  /\ now' = now + dt
              /\ SyncAndManage(close, atr, now + dt, close_ok, sl_ok)
    /\ UNCHANGED <<recent_trades, consecutive_losses, consecutive_wins,
                   rm_daily_pnl, max_drawdown, account_peak, last_trade_time,
                   adaptive_cooldowns, rm_last, units_call, ts_call,
                   loopVars>>
    /\ UNCHANGED <<replayVars, v10Vars, streakVars, signalVars, rerunVars>>

\* A trade as the broker reports it: entry, stop (0 when it has no stop
\* order) and opening time.
LiveTrade(id, direction, sl, open_time) ==
    [id |-> id, direction |-> direction, entry |-> PmEntry, sl |-> sl,
     open_time |-> open_time]

\* The stops a trade is opened with: none, or 30 pips away.
PmInitialStops(direction) ==
    {0, IF direction = "BUY" THEN PmEntry - 300 ELSE PmEntry + 300}

----------------------------------------------------------------------------
(* main.py: main(), the scan loop of lines 684-891                         *)
(*                                                                         *)
(* Money is in dollars.  The run stays within one UTC day, and the fills   *)
(* the account's transaction window holds carry no realized pl.            *)

MaxLiveScans == 2

\* Line 700: config.get('max_daily_loss', 1000.0).
MaxDailyLossUsd == 1000

\* Line 701: config.get('risk_per_trade', 0.01), in millionths.
RiskPerTrade == 10000

\* get_account_summary answered something else than 200.
NoAccount == [balance |-> NoBalance, unrealizedPL |-> 0]

LiveAccountSet ==
    {[balance |-> 10000, unrealizedPL |-> 0],
     [balance |-> 10000, unrealizedPL |-> -1000]}

\* The balance .balance-reset.json holds for today, NoBalance when the file
\* is missing or of another day.
CachedBalanceSet == {NoBalance, 10000}

\* What generate_signal returns, as far as the loop reads it: the action,
\* whether the confluence score reaches the required score, the grade.
LiveSignalSet ==
    {[action |-> "HOLD", score_ok |-> FALSE, grade_a |-> FALSE]}
    \cup [action : {"BUY", "SELL"}, score_ok : BOOLEAN, grade_a : BOOLEAN]

\* What calculate_bias of macro_bias.py returns.
MacroSet ==
    {[confidence |-> "HIGH", bias |-> "BULLISH"],
     [confidence |-> "MEDIUM", bias |-> "BEARISH"]}

\* The closes of the candles handed to the manager.
LiveCloseSet == {PmEntry, PmEntry + 130}

LiveAtr == 20

\* The time from one scan to the next, minutes.
LiveDt == 240

\* The balance update_streak reads from its own account summary.
LiveBalance == 10000

NoScan == [balance |-> NoBalance, quant_active |-> FALSE, action |-> "NONE",
           score_ok |-> FALSE, grade_a |-> FALSE]

\* backtest_cli.py: no candle was out of order, the run has not failed.
NoFeed == [stale |-> 0, error |-> FALSE]

\* The fields of the risk manager update_performance writes.
perfVars == <<recent_trades, consecutive_losses, consecutive_wins,
              rm_daily_pnl, max_drawdown, account_peak>>

\* Lines 654-682: _ensure_reset.  cached is the balance of the reset cache.
EnsureReset(account, cached) ==
    LET loaded == IF balance_at_reset = NoBalance THEN cached
                  ELSE balance_at_reset
    IN  IF loaded = NoBalance
        THEN [balance_at_reset |-> account.balance, tripped |-> FALSE]
        ELSE [balance_at_reset |-> loaded,
              tripped |-> circuit_breaker_tripped]

\* Lines 731-741: the breaker after the two tests.
Breaker(dpnl, tripped) ==
    LET t1 == tripped \/ dpnl <= -MaxDailyLossUsd
    IN  IF t1 /\ dpnl > -MaxDailyLossUsd THEN FALSE ELSE t1

\* Lines 691-693 and 747-749: close every open trade of the pair.  get_ok:
\* openTrades answers 200 (get_open_trades returns [] otherwise); closed:
\* the ids whose close request the broker accepts.  The result of
\* close_trade is not read.
Flatten(get_ok, closed) ==
    IF get_ok
    THEN SelectSeq(broker_trades, LAMBDA tr : tr.id \notin closed)
    ELSE broker_trades

TradeIds == {broker_trades[i].id : i \in DOMAIN broker_trades}

\* macro_bias.py 335-363.
ShouldAllowTrade(m, action) ==
    ~(m.confidence = "HIGH"
      /\ \/ m.bias = "BULLISH" /\ action = "SELL"
         \/ m.bias = "BEARISH" /\ action = "BUY")

\* macro_bias.py 365-381, in quarters; agreement_count is at least 2.
PositionSizeMultiplier4(m) ==
    IF m.confidence = "HIGH" THEN 4
    ELSE IF m.confidence = "MEDIUM" THEN 3
    ELSE 2

\* main.py 313-317, in quarters.
RiskMultiplier4 ==
    IF pt_consecutive_losses >= 3 THEN 1
    ELSE IF pt_consecutive_losses >= 2 THEN 2
    ELSE IF risk_reduction_active THEN 3
    ELSE 4

\* Lines 816-836: effective_risk_pct, in millionths.
EffectiveRiskPct(m, action) ==
    LET halves == IF ShouldAllowTrade(m, action) THEN 1 ELSE 2
    IN  (RiskPerTrade * RiskMultiplier4 * PositionSizeMultiplier4(m))
            \div (16 * halves)

\* The stop of a signal, 30 pips from its entry.
LiveStop(action) == IF action = "BUY" THEN PmEntry - 300 ELSE PmEntry + 300

\* Line 620: the streak check before the loop.
LiveStart ==
    /\ pc = "start"
    /\ pc' = "top"
    /\ \E status_ok \in BOOLEAN : UpdateStreak(status_ok, LiveBalance)
    /\ UNCHANGED <<txs, streak_runs, last_trade_time, adaptive_cooldowns,
                   now, rm_last>>
    /\ UNCHANGED <<units_call, broker_trades, sl_sent, pm_scan, scans,
                   ts_call, kill_file, circuit_breaker_tripped,
                   balance_at_reset, scan, order_log, trades_today,
                   ingests, cli_feed>>
    /\ UNCHANGED <<replayVars, v10Vars, signalVars, rerunVars>>

\* Lines 686-741: the kill switch, the account summary, the daily reset and
\* the circuit breaker.
LiveTop ==
    /\ pc = "top"
    /\ kill_file \/ scans < MaxLiveScans
    /\ IF kill_file
       THEN /\ \E get_ok \in BOOLEAN, closed \in SUBSET TradeIds :
                  broker_trades' = Flatten(get_ok, closed)
            /\ pc' = "stopped"
            /\ UNCHANGED <<circuit_breaker_tripped, balance_at_reset, scan,
                           scans>>
       ELSE \E account \in LiveAccountSet \cup {NoAccount},
               cached \in CachedBalanceSet, quant_active \in BOOLEAN :
               IF account = NoAccount
               THEN /\ pc' = "top"
                    /\ scans' = scans + 1
                    /\ UNCHANGED <<circuit_breaker_tripped, balance_at_reset,
                                   scan, broker_trades>>
               ELSE LET r == EnsureReset(account, cached)
                        current_nav == account.balance + account.unrealizedPL
                        live_pnl == current_nav - r.balance_at_reset
                    IN  /\ balance_at_reset' = r.balance_at_reset
                        /\ circuit_breaker_tripped' =
                              Breaker(live_pnl, r.tripped)
                        /\ scan' = [NoScan EXCEPT
                                       !.balance = account.balance,
                                       !.quant_active = quant_active]
                        /\ pc' = "pair"
                        /\ UNCHANGED <<broker_trades, scans>>
    /\ UNCHANGED <<units_call, sl_sent, pm_scan, ts_call, kill_file,
                   order_log, trades_today,
                   ingests, cli_feed>>
    /\ UNCHANGED <<replayVars, v10Vars, riskVars, streakVars, signalVars,
                   rerunVars>>

\* Lines 744-770: the flatten of a tripped breaker, the candles and the
\* signal.
LivePair ==
    /\ pc = "pair"
    /\ \E get_ok \in BOOLEAN, closed \in SUBSET TradeIds :
          broker_trades' = IF circuit_breaker_tripped
                           THEN Flatten(get_ok, closed)
                           ELSE broker_trades
    /\ \E candles \in BOOLEAN, sig \in LiveSignalSet :
          IF ~candles
          THEN pc' = "tail" /\ UNCHANGED scan
          ELSE /\ scan' = [scan EXCEPT !.action = sig.action,
                                       !.score_ok = sig.score_ok,
                                       !.grade_a = sig.grade_a]
               /\ pc' = IF scan.quant_active THEN "manage" ELSE "tail"
    /\ UNCHANGED <<units_call, sl_sent, pm_scan, scans, ts_call, kill_file,
                   circuit_breaker_tripped, balance_at_reset, order_log,
                   trades_today,
                   ingests, cli_feed>>
    /\ UNCHANGED <<replayVars, v10Vars, riskVars, streakVars, signalVars,
                   rerunVars>>

\* Line 775.
LiveManage ==
    /\ pc = "manage"
    /\ pc' = "order"
    /\ \E close \in LiveCloseSet, close_ok \in BOOLEAN, sl_ok \in BOOLEAN :
          SyncAndManage(close, LiveAtr, now, close_ok, sl_ok)
    /\ UNCHANGED <<units_call, scans, ts_call, kill_file,
                   circuit_breaker_tripped, balance_at_reset, scan,
                   order_log, trades_today,
                   ingests, cli_feed>>
    /\ UNCHANGED <<replayVars, v10Vars, riskVars, streakVars, signalVars,
                   rerunVars>>

\* Lines 837-856: the order is sized and sent; ok is the broker's 201.
SendOrder(m, ok) ==
    LET risk_pct == EffectiveRiskPct(m, scan.action)
        entry == PmEntry \div 10
        sl == LiveStop(scan.action) \div 10
        units == CalcUnitsUsdJpy(scan.balance, risk_pct, entry, sl,
                                 scan.action)
    IN  /\ units_call' = [balance |-> scan.balance, risk_pct |-> risk_pct,
                          entry |-> entry, sl |-> sl,
                          action |-> scan.action, units |-> units]
        /\ order_log' = Append(order_log, [units |-> units, ok |-> ok])
        /\ IF ok
           THEN /\ broker_trades' =
                      Append(broker_trades,
                             LiveTrade(Len(order_log) + 2, scan.action,
                                       LiveStop(scan.action), now))
                /\ trades_today' = trades_today + 1
                /\ last_trade_time' =
                      [last_trade_time EXCEPT ![scan.action] = now]
           ELSE UNCHANGED <<broker_trades, trades_today, last_trade_time>>

NoOrder ==
    UNCHANGED <<units_call, order_log, broker_trades, trades_today,
                last_trade_time>>

\* Lines 778-856: the checks in front of a new order, and the order.
\* in_profit: the first open trade of the pair has unrealizedPL > 0.
LiveOrder ==
    /\ pc = "order"
    /\ pc' = "tail"
    /\ \E get_ok \in BOOLEAN, in_profit \in BOOLEAN, m \in MacroSet,
          ok \in BOOLEAN :
          LET current_pair_trades == IF get_ok THEN broker_trades ELSE << >>
              existing_directions ==
                  {current_pair_trades[i].direction :
                      i \in DOMAIN current_pair_trades}
              is_hedge ==
                  \/ scan.action = "BUY" /\ "SELL" \in existing_directions
                  \/ scan.action = "SELL" /\ "BUY" \in existing_directions
              wanted == /\ Len(current_pair_trades) < 2
                        /\ scan.action \in {"BUY", "SELL"}
              blocked == ~is_hedge /\ Len(current_pair_trades) > 0
                         /\ ~in_profit
          IN  IF wanted /\ ~blocked
              THEN /\ IsLockedOut(scan.action, scan.balance)
                   /\ IF /\ ~rm_last'.locked
                         /\ scan.score_ok
                         /\ ShouldAllowTrade(m, scan.action) \/ scan.grade_a
                      THEN SendOrder(m, ok)
                      ELSE NoOrder
              ELSE /\ NoOrder
                   /\ UNCHANGED <<rm_last, adaptive_cooldowns>>
    /\ UNCHANGED <<perfVars, now>>
    /\ UNCHANGED <<sl_sent, pm_scan, scans, ts_call, kill_file,
                   circuit_breaker_tripped, balance_at_reset, scan,
                   ingests, cli_feed>>
    /\ UNCHANGED <<replayVars, v10Vars, streakVars, signalVars, rerunVars>>

\* Lines 870-874: the periodic streak check and the sleep.
LiveTail ==
    /\ pc = "tail"
    /\ pc' = "top"
    /\ scans' = scans + 1
    /\ scan' = NoScan
    /\ now' = now + LiveDt
    /\ \E due \in BOOLEAN, status_ok \in BOOLEAN :
          IF due THEN UpdateStreak(status_ok, LiveBalance)
          ELSE UNCHANGED <<perfVars, pt_consecutive_losses, pt_daily_losses,
                           risk_reduction_active, streak_status>>
    /\ UNCHANGED <<txs, streak_runs, last_trade_time, adaptive_cooldowns,
                   rm_last>>
    /\ UNCHANGED <<units_call, broker_trades, sl_sent, pm_scan, ts_call,
                   kill_file, circuit_breaker_tripped, balance_at_reset,
                   order_log, trades_today,
                   ingests, cli_feed>>
    /\ UNCHANGED <<replayVars, v10Vars, signalVars, rerunVars>>

\* Somebody creates the file .kill-algo.
LiveKillFile ==
    /\ pc \notin {"idle", "stopped"}
    /\ ~kill_file
    /\ kill_file' = TRUE
    /\ UNCHANGED <<units_call, broker_trades, sl_sent, pm_scan, scans,
                   ts_call, pc, circuit_breaker_tripped, balance_at_reset,
                   scan, order_log, trades_today,
                   ingests, cli_feed>>
    /\ UNCHANGED <<replayVars, v10Vars, riskVars, streakVars, signalVars,
                   rerunVars>>

\* Lines 876-879: a KeyboardInterrupt anywhere in the body of the loop.
LiveInterrupt ==
    /\ pc \in {"top", "pair", "manage", "order", "tail"}
    /\ pc' = "stopped"
    /\ UNCHANGED <<units_call, broker_trades, sl_sent, pm_scan, scans,
                   ts_call, kill_file, circuit_breaker_tripped,
                   balance_at_reset, scan, order_log, trades_today,
                   ingests, cli_feed>>
    /\ UNCHANGED <<replayVars, v10Vars, riskVars, streakVars, signalVars,
                   rerunVars>>

\* The loop is not running.
LoopIdle ==
    /\ pc = "idle"
    /\ kill_file = FALSE
    /\ circuit_breaker_tripped = FALSE
    /\ balance_at_reset = NoBalance
    /\ scan = NoScan
    /\ order_log = << >>
    /\ trades_today = 0
    /\ ingests = 0
    /\ cli_feed = NoFeed

\* Lines 610-650: the objects of main(); the trip state may be reloaded
\* from the status file, and a trade may be open from an earlier session.
LiveInit ==
    /\ units_call = NoUnitsCall
    /\ broker_trades \in {<< >>, <<LiveTrade(1, "BUY", LiveStop("BUY"), 0)>>}
    /\ sl_sent = << >>
    /\ pm_scan = << >>
    /\ scans = 0
    /\ ts_call = NoTsCall
    /\ pc = "start"
    /\ kill_file = FALSE
    /\ circuit_breaker_tripped \in BOOLEAN
    /\ balance_at_reset = NoBalance
    /\ scan = NoScan
    /\ order_log = << >>
    /\ trades_today = 0
    /\ ingests = 0
    /\ cli_feed = NoFeed

----------------------------------------------------------------------------
(* main.py: the consecutive-loss lockout over time                         *)
(*                                                                         *)
(* The loop asks is_locked_out before every order (lines 798-802) and      *)
(* runs update_streak periodically (870-872); the only fills with a        *)
(* realized pl are the closes of the trades the loop has opened.           *)

\* The balance of the account summary, in the unit of BalanceSet.
LockBalance == 100

\* Lines 798-856: the gate in front of an order; a permitted order may be
\* placed (placed) when the other tests of the scan pass.
LockGate ==
    /\ \E direction \in Directions, placed \in BOOLEAN :
          /\ IsLockedOut(direction, LockBalance)
          /\ IF /\ ~rm_last'.locked
                /\ placed
                /\ Len(broker_trades) < 2
                /\ Len(txs) + Len(broker_trades) < MaxTxs
             THEN /\ broker_trades' =
                        Append(broker_trades,
                               LiveTrade(Len(txs) + Len(broker_trades) + 1,
                                         direction, LiveStop(direction), now))
                  /\ last_trade_time' =
                        [last_trade_time EXCEPT ![direction] = now]
             ELSE UNCHANGED <<broker_trades, last_trade_time>>
    /\ UNCHANGED <<perfVars, now>>
    /\ UNCHANGED <<units_call, sl_sent, pm_scan, scans, ts_call, loopVars>>
    /\ UNCHANGED <<replayVars, v10Vars, streakVars, signalVars, rerunVars>>

\* The broker closes the oldest open trade at its stop or its target; the
\* fill enters the transaction log.
LockFill ==
    /\ broker_trades # << >>
    /\ Len(txs) < MaxTxs
    /\ \E pl \in TxPlSet \ {0} :
          txs' = Append(txs, [pl |-> pl, today |-> TRUE])
    /\ broker_trades' = Tail(broker_trades)
    /\ streak_status' = "none"
    /\ UNCHANGED <<pt_consecutive_losses, pt_daily_losses,
                   risk_reduction_active, streak_runs>>
    /\ UNCHANGED <<units_call, sl_sent, pm_scan, scans, ts_call, loopVars>>
    /\ UNCHANGED <<replayVars, v10Vars, riskVars, signalVars, rerunVars>>

\* Lines 870-872 with trades open at the broker.
LockUpdateStreak ==
    /\ streak_runs < MaxStreakRuns
    /\ streak_runs' = streak_runs + 1
    /\ \E status_ok \in BOOLEAN : UpdateStreak(status_ok, LockBalance)
    /\ UNCHANGED <<txs, last_trade_time, adaptive_cooldowns, now, rm_last>>
    /\ UNCHANGED liveVars
    /\ UNCHANGED <<replayVars, v10Vars, signalVars, rerunVars>>

----------------------------------------------------------------------------
(* main.py: AdaptiveRiskManager.update_performance over a long history     *)

MaxHistIngests == 4

\* The manager as __init__ leaves it (lines 325-344).
FreshRmState ==
    [recent_trades |-> << >>, consecutive_losses |-> 0,
     consecutive_wins |-> 0, daily_pnl |-> 0, max_drawdown |-> <<0, 1>>,
     account_peak |-> 0, raised |-> FALSE]

\* The manager after n losing trades of 20 were ingested at a balance of
\* 100.
RECURSIVE LossesIngested(_)
LossesIngested(n) ==
    IF n = 0 THEN FreshRmState
    ELSE PerformanceAfter(LossesIngested(n - 1), "LOSS", -20, 100)

\* How many trades the manager has ingested when the run begins.
HistPrefixSet == {0, 18, 19}

HistInit ==
    /\ \E n \in HistPrefixSet :
          LET s == LossesIngested(n)
          IN  /\ recent_trades = s.recent_trades
              /\ consecutive_losses = s.consecutive_losses
              /\ consecutive_wins = s.consecutive_wins
              /\ rm_daily_pnl = s.daily_pnl
              /\ max_drawdown = s.max_drawdown
              /\ account_peak = s.account_peak
    /\ last_trade_time = [d \in {"BUY", "SELL"} |-> -1]
    /\ adaptive_cooldowns = [d \in {"BUY", "SELL"} |-> 0]
    /\ now = 0
    /\ rm_last = NoResult

\* One more call of update_performance.
HistUpdatePerformance ==
    /\ ingests < MaxHistIngests
    /\ ingests' = ingests + 1
    /\ \E pnl \in PnlSet, account_balance \in BalanceSet :
          UpdatePerformance(IF pnl < 0 THEN "LOSS" ELSE "WIN", pnl,
                            account_balance)
    /\ UNCHANGED <<units_call, broker_trades, sl_sent, pm_scan, scans,
                   ts_call, pc, kill_file, circuit_breaker_tripped,
                   balance_at_reset, scan, order_log, trades_today,
                   cli_feed>>
    /\ UNCHANGED <<replayVars, v10Vars, streakVars, signalVars, rerunVars>>

----------------------------------------------------------------------------
(* backtest_cli.py: candles that are out of order or malformed             *)

\* The date of a candle whose timestamp is not after the one before it: the
\* same day or another one.
StaleDates(d) == IF d = BeforeStart THEN {BeforeStart} ELSE {d, 1 - d}

\* Lines 65-212 for a candle in order.
FeedCliBar == ~cli_feed.error /\ ReplayCliBar

FeedCliSkip == ~cli_feed.error /\ ReplayCliSkip

\* Lines 65-212 for a candle whose timestamp is not after the one before
\* it: nothing in the loop compares the timestamps of two candles.
FeedStaleBar ==
    /\ ~cli_feed.error
    /\ 0 < bars /\ bars < MaxBars
    /\ bars' = bars + 1
    /\ cli_feed' = [cli_feed EXCEPT !.stale = @ + 1]
    /\ \E d \in StaleDates(day), b \in BarsFor(active_trade) :
         \E sig \in SignalSet(b.close, cfg) : \E session \in SessionsFor(sig) :
            /\ day' = d
            /\ IF d = BeforeStart THEN CliSkip(d)
               ELSE CliBar(d, b, session, sig)
    /\ UNCHANGED <<units_call, broker_trades, sl_sent, pm_scan, scans,
                   ts_call, pc, kill_file, circuit_breaker_tripped,
                   balance_at_reset, scan, order_log, trades_today, ingests>>
    /\ UNCHANGED <<engine, cfg, v10Vars, riskVars, streakVars, signalVars,
                   rerunVars>>

\* A candle with a null timestamp: row['date'] is NaT and line 212 raises;
\* the handler of lines 238-239 prints the error and nothing else.  (A
\* timestamp or a price that cannot be converted raises at lines 27-39.)
FeedMalformedBar ==
    /\ ~cli_feed.error
    /\ bars < MaxBars
    /\ bars' = bars + 1
    /\ cli_feed' = [cli_feed EXCEPT !.error = TRUE]
    /\ bar' = NoBar
    /\ UNCHANGED <<engine, cfg, day, last_date, equity, daily_pnl,
                   active_trade, trades, equity_curve>>
    /\ UNCHANGED <<units_call, broker_trades, sl_sent, pm_scan, scans,
                   ts_call, pc, kill_file, circuit_breaker_tripped,
                   balance_at_reset, scan, order_log, trades_today, ingests>>
    /\ UNCHANGED <<v10Vars, riskVars, streakVars, signalVars, rerunVars>>

\* One trade is open when the manager starts.
ManageInit ==
    /\ units_call = NoUnitsCall
    /\ \E direction \in {"BUY", "SELL"} :
         \E sl \in PmInitialStops(direction) :
            broker_trades = <<LiveTrade(1, direction, sl, 0)>>
    /\ sl_sent = << >>
    /\ pm_scan = << >>
    /\ scans = 0
    /\ ts_call = NoTsCall
    /\ LoopIdle

\* No part of the live loop takes part in the run.
LiveIdle ==
    /\ units_call = NoUnitsCall
    /\ broker_trades = << >>
    /\ sl_sent = << >>
    /\ pm_scan = << >>
    /\ scans = 0
    /\ ts_call = NoTsCall
    /\ LoopIdle

----------------------------------------------------------------------------
(* The specifications *)

\* What get_metrics of backtester.py reads: the ledger and the balance of
\* the object.
RunResult == [trades |-> trades, balance |-> equity]

NoRunResult == [trades |-> << >>, balance |-> 0]

\* A first run() on a backtester object; the rows of its frame are not
\* recorded.
RerunIdle ==
    /\ run_no = 1
    /\ feed = << >>
    /\ first_result = NoRunResult

InitReplay ==
    ReplayInit /\ V10Init /\ RiskInit /\ StreakInit /\ SignalIdle /\ RerunIdle
    /\ LiveIdle

NextReplay ==
    \/ ReplayCliBar
    \/ ReplayCliSkip
    \/ ReplayFastBar
    \/ ReplayVecBar
    \/ ReplayV10Bar

SpecReplay == InitReplay /\ [][NextReplay]_vars

\* backtest_v10.py from the first bar to the return of run_backtest.
InitV10End == InitReplay /\ engine = "v10"

NextV10End ==
    \/ ReplayV10Bar
    \/ ReplayV10CloseOut

SpecV10End == InitV10End /\ [][NextV10End]_vars

\* The replay variables of a run in which only the risk manager acts.
ReplayIdle ==
    /\ engine = "none"
    /\ cfg = V10Cfg
    /\ bars = 0
    /\ day = 0
    /\ last_date = NoDate
    /\ equity = 0
    /\ daily_pnl = 0
    /\ active_trade = NoTrade
    /\ trades = << >>
    /\ equity_curve = << >>
    /\ bar = NoBar

InitRisk ==
    ReplayIdle /\ V10Init /\ RiskInit /\ StreakInit /\ SignalIdle /\ RerunIdle
    /\ LiveIdle

NextRisk ==
    \/ RmUpdatePerformance
    \/ RmRegisterTrade
    \/ RmShouldAdaptCooldown
    \/ RmIsLockedOut
    \/ RmTick

SpecRisk == InitRisk /\ [][NextRisk]_vars

InitStreak ==
    ReplayIdle /\ V10Init /\ RiskInit /\ StreakInit /\ SignalIdle /\ RerunIdle
    /\ LiveIdle

NextStreak ==
    \/ BrokerFill
    \/ PtUpdateStreak

SpecStreak == InitStreak /\ [][NextStreak]_vars

\* strategy.py 11-17, strategy_v10.py 9-17, strategy_backup.py 35-39: a
\* fresh strategy object, and a frame one bar short of the first call.
SignalInit ==
    /\ strat \in {"strategy", "strategy_v10", "strategy_backup"}
    /\ strat_cfg \in SigCfgSet(strat)
    /\ last_signal_idx = -1
    /\ last_signal_time = NoTime
    /\ sig_len = MinFrame(strat) - 2
    /\ sig_time = 0
    /\ sig_call = NoSigCall

InitSignal ==
    ReplayIdle /\ V10Init /\ RiskInit /\ StreakInit /\ SignalInit /\ RerunIdle
    /\ LiveIdle

NextSignal ==
    \/ SigStrategyCall
    \/ SigV10Call
    \/ SigBackupCall

SpecSignal == InitSignal /\ [][NextSignal]_vars

----------------------------------------------------------------------------
(* strategy_backup.py: generate_signal fed a sustained uptrend              *)

\* The bars fed after the shortest accepted frame.
MaxTrendBars == 6

\* strategy_backup.py 48: n_cross_fresh.
n_cross_fresh == 24

\* Lines 416-430: the last index in the lookback at which ema9 crossed above
\* ema21, -1 without one.  Both averages start at the first close (lines
\* 101-102, ewm with adjust=False); while every close is above the one
\* before, the average of span 9 is above the one of span 21 from index 1
\* on, so index 1 holds the only cross of the series.
UptrendBullCrossIdx(t) ==
    IF Max2(1, t - 2 * n_cross_fresh) <= 1 THEN 1 ELSE -1

\* Lines 434-435: fresh_window and cross_fresh_long.
UptrendCrossFresh(t, aggressive_mode) ==
    LET bull_cross_idx == UptrendBullCrossIdx(t)
        fresh_window == n_cross_fresh * (IF aggressive_mode THEN 2 ELSE 1)
    IN  bull_cross_idx # -1 /\ (t - bull_cross_idx) < fresh_window

\* The last rows of a frame of rising bars with ADX above 25: close above
\* h1_ema200, +DI above -DI, ema9 above ema21.  The volatility, chop,
\* pullback, momentum and break-of-structure gates are left open.
UptrendRows(t, aggressive_mode) ==
    {r \in BackupRows :
        /\ r.h1 = "long" /\ r.adx = 30 /\ r.di_with /\ ~r.adx_rising
        /\ r.aligned
        /\ r.cross_fresh = UptrendCrossFresh(t, aggressive_mode)}

\* validate_logic.py 76-79: the next frame df.iloc[:i+1] is handed to
\* generate_signal, inside trading hours and with enough volatility.
TrendBackupCall ==
    /\ strat = "strategy_backup"
    /\ sig_len < MinFrame(strat) - 2 + MaxTrendBars
    /\ \E dt \in DtSet :
         LET len_df == sig_len + 1
             current_time == sig_time + dt
         IN  \E r \in UptrendRows(len_df - 1, strat_cfg.aggressive_mode) :
                /\ sig_len' = len_df
                /\ sig_time' = current_time
                /\ BackupGenerateSignal(len_df, current_time, "ok", r,
                                        BackupAtr, strat_cfg)
    /\ UNCHANGED <<strat, strat_cfg>>
    /\ UNCHANGED <<replayVars, v10Vars, riskVars, streakVars,
                 rerunVars, liveVars>>

InitTrend == InitSignal /\ strat = "strategy_backup"

NextTrend == TrendBackupCall

\* The caller goes on feeding bars while it has some.
SpecTrend == InitTrend /\ [][NextTrend]_vars /\ WF_vars(TrendBackupCall)

----------------------------------------------------------------------------
(* generate_signal called with a sliding window of fixed length *)

\* The new bars that arrive after the first window.
MaxWindowBars == 6

\* main.py 158: the count of fetch_candles; every scan hands the strategy
\* the most recent count candles.
FetchCount == 1000

\* The window has moved on by one M15 bar and strategy.py is asked.
WindowStrategyCall ==
    /\ strat = "strategy"
    /\ sig_time < MaxWindowBars * M15
    /\ \E session_ok \in BOOLEAN :
         LET len_df == FetchCount
             current_time == sig_time + M15
             reads ==
                /\ session_ok
                /\ CooldownOk(BarCooldownOk(len_df, StrategyCooldownBars),
                              TimeCooldownOk(current_time, StrategyMinHours))
         IN  \E r \in RowsRead(StrategyRows, reads) :
                /\ sig_len' = len_df
                /\ sig_time' = current_time
                /\ StrategyGenerateSignal(len_df, current_time, session_ok,
                                          r, SigAtr)
    /\ UNCHANGED <<strat, strat_cfg>>
    /\ UNCHANGED <<replayVars, v10Vars, riskVars, streakVars,
                 rerunVars, liveVars>>

\* The same for the strategy of strategy_backup.py.
WindowBackupCall ==
    /\ strat = "strategy_backup"
    /\ sig_time < MaxWindowBars * M15
    /\ \E precheck \in {"ok", "hours", "volatility"} :
         LET len_df == FetchCount
             current_time == sig_time + M15
             reads ==
                /\ precheck = "ok"
                /\ CooldownOk(
                      BarCooldownOk(len_df, strat_cfg.signal_cooldown),
                      TimeCooldownOk(current_time, strat_cfg.min_hours))
         IN  \E r \in BackupRowsRead(reads) :
                /\ sig_len' = len_df
                /\ sig_time' = current_time
                /\ BackupGenerateSignal(len_df, current_time, precheck, r,
                                        BackupAtr, strat_cfg)
    /\ UNCHANGED <<strat, strat_cfg>>
    /\ UNCHANGED <<replayVars, v10Vars, riskVars, streakVars,
                 rerunVars, liveVars>>

InitWindow == InitSignal /\ strat \in {"strategy", "strategy_backup"}

NextWindow ==
    \/ WindowStrategyCall
    \/ WindowBackupCall

SpecWindow == InitWindow /\ [][NextWindow]_vars

----------------------------------------------------------------------------
(* The specifications of the live loop *)

InitUnits ==
    ReplayIdle /\ V10Init /\ RiskInit /\ StreakInit /\ SignalIdle /\ RerunIdle
    /\ LiveIdle

NextUnits == CalcUnitsCall

SpecUnits == InitUnits /\ [][NextUnits]_vars

InitTimeStop ==
    ReplayIdle /\ V10Init /\ RiskInit /\ StreakInit /\ SignalIdle /\ RerunIdle
    /\ LiveIdle

NextTimeStop == CheckTimeStopCall

SpecTimeStop == InitTimeStop /\ [][NextTimeStop]_vars

InitLive ==
    ReplayIdle /\ V10Init /\ RiskInit /\ StreakInit /\ SignalIdle /\ RerunIdle
    /\ LiveInit

NextLive ==
    \/ LiveStart
    \/ LiveTop
    \/ LivePair
    \/ LiveManage
    \/ LiveOrder
    \/ LiveTail
    \/ LiveKillFile
    \/ LiveInterrupt

SpecLive == InitLive /\ [][NextLive]_vars

InitLockout ==
    ReplayIdle /\ V10Init /\ RiskInit /\ StreakInit /\ SignalIdle /\ RerunIdle
    /\ LiveIdle

NextLockout ==
    \/ LockGate
    \/ LockFill
    \/ LockUpdateStreak
    \/ RmTick

\* The loop scans every 3 seconds, so the gate and the periodic streak
\* check keep being run; a trade with a stop and a target is closed in the
\* end.
SpecLockout ==
    /\ InitLockout /\ [][NextLockout]_vars
    /\ WF_vars(LockGate) /\ WF_vars(LockUpdateStreak) /\ WF_vars(LockFill)

InitHistory ==
    ReplayIdle /\ V10Init /\ HistInit /\ StreakInit /\ SignalIdle /\ RerunIdle
    /\ LiveIdle

NextHistory == HistUpdatePerformance

SpecHistory == InitHistory /\ [][NextHistory]_vars

InitFeed == InitReplay /\ engine = "cli"

NextFeed ==
    \/ FeedCliBar
    \/ FeedCliSkip
    \/ FeedStaleBar
    \/ FeedMalformedBar

SpecFeed == InitFeed /\ [][NextFeed]_vars

InitManage ==
    ReplayIdle /\ V10Init /\ RiskInit /\ StreakInit /\ SignalIdle /\ RerunIdle
    /\ ManageInit

NextManage == PmScan

SpecManage == InitManage /\ [][NextManage]_vars

----------------------------------------------------------------------------
(* backtester.py: run() called twice on one VectorizedBacktester object *)

MaxRerunBars == 4

\* The rows of the frame: a bar closing at 101.0 that stays flat, touches
\* the stop of a BUY or touches its target, and what the strategy finds on
\* the slice ending there.
RerunBarSet ==
    {b \in BarSet : b.close = 1010 /\ (b.low = b.close \/ b.high = b.close)}

RerunRows ==
    {[bar |-> b, sig |-> SignalFor(a, b.close, atr, cfg)] :
        b \in RerunBarSet, a \in {"HOLD", "BUY"}, atr \in AtrSet}

\* Lines 32-67, one iteration.  The frame self.df is the same in every
\* run of the object: the first run reveals its rows, a later run reads
\* them again.
RerunVecBar ==
    /\ IF run_no = 1
       THEN /\ bars < MaxRerunBars
            /\ \E row \in RerunRows :
                  /\ VecBar(row.bar, row.sig)
                  /\ feed' = Append(feed, row)
       ELSE /\ bars < Len(feed)
            /\ VecBar(feed[bars + 1].bar, feed[bars + 1].sig)
            /\ feed' = feed
    /\ bars' = bars + 1
    /\ day' = day
    /\ UNCHANGED <<engine, cfg, v10Vars, riskVars, streakVars, strat, strat_cfg,
                   sig_len, sig_time, sig_call, run_no, first_result,
                   liveVars>>

\* Lines 24-30 and 69: the first run() returns and run() is called again.
\* The loop starts over with active_trade = None; self.balance, self.trades
\* and self.strategy are those the first run left.
RerunRunAgain ==
    /\ engine = "vec"
    /\ run_no = 1
    /\ bars >= 1
    /\ first_result' = RunResult
    /\ run_no' = 2
    /\ bars' = 0
    /\ active_trade' = NoTrade
    /\ bar' = NoBar
    /\ UNCHANGED <<engine, cfg, day, last_date, equity, daily_pnl, trades,
                   equity_curve, feed, v10Vars, riskVars, streakVars,
                   signalVars, liveVars>>

\* Lines 6-22: a backtester object as constructed.
InitRerun ==
    /\ ReplayInit
    /\ engine = "vec"
    /\ V10Init /\ RiskInit /\ StreakInit /\ SignalIdle /\ RerunIdle
    /\ LiveIdle

NextRerun ==
    \/ RerunVecBar
    \/ RerunRunAgain

SpecRerun == InitRerun /\ [][NextRerun]_vars

----------------------------------------------------------------------------
(* Properties of the replay loops and of the position lifecycle *)

LastTrade == trades[Len(trades)]

\* The stop a position carries after a step: the one in the ledger record
\* when the step closed it, the one of the open position otherwise.
StopAfterReplay ==
    IF Len(trades') > Len(trades) THEN trades'[Len(trades')].sl
    ELSE active_trade'.sl

StopAfterV10 ==
    IF Len(trades') > Len(trades) THEN trades'[Len(trades')].sl
    ELSE position'.sl

\* The stop distance fixed at entry, in pips: ATR times atr_multiplier_sl.
InitialRiskPips(pos) == ((pos.atr * V10Cfg.mult10) \div 10) * 10

BothInRange(t, b) ==
    \/ t.action = "BUY" /\ b.low <= t.sl /\ b.high >= t.tp
    \/ t.action = "SELL" /\ b.high >= t.sl /\ b.low <= t.tp

C2_DailyCircuitBreaker ==
    [][(engine \in {"cli", "fast"} /\ bars' = bars + 1 /\ last_date' # NoDate)
       => (/\ (daily_pnl <= -cfg.max_daily_loss /\ last_date' = last_date)
                => (active_trade' = NoTrade /\ daily_pnl' = daily_pnl)
           /\ (daily_pnl' <= -cfg.max_daily_loss) => active_trade' = NoTrade
           /\ (last_date' # last_date) => daily_pnl' = equity' - equity)]_vars

\* Witness of C2: the only closed trade lost at least max_daily_loss, the
\* day has rolled over since (the daily PnL is back to 0) and a new
\* position is open.
C2_Witness ==
    /\ engine \in {"cli", "fast"}
    /\ Len(trades) = 1
    /\ trades[1].pnl <= -cfg.max_daily_loss
    /\ daily_pnl = 0
    /\ active_trade # NoTrade

\* C3: over successive manage_position calls of backtest_v10 and over
\* successive bars of the other replay loops, the stop of a long position
\* never decreases and the stop of a short position never increases.
C3_StopMonotone ==
    [][/\ (engine = "v10" /\ bars' = bars + 1
             /\ v10_call'.before.action = "BUY")
            => StopAfterV10 >= v10_call'.before.sl
       /\ (engine = "v10" /\ bars' = bars + 1
             /\ v10_call'.before.action = "SELL")
            => StopAfterV10 <= v10_call'.before.sl
       /\ (engine \in {"cli", "vec"} /\ bars' = bars + 1
             /\ active_trade.action = "BUY")
            => StopAfterReplay >= active_trade.sl
       /\ (engine \in {"cli", "vec"} /\ bars' = bars + 1
             /\ active_trade.action = "SELL")
            => StopAfterReplay <= active_trade.sl
       /\ (engine = "fast" /\ bars' = bars + 1
             /\ active_trade # NoTrade /\ Len(trades') = Len(trades))
            => active_trade'.sl = active_trade.sl]_vars

\* Witness of C3: a long position of backtest_v10 whose stop has been
\* trailed above its entry, and a backtest_cli long moved to breakeven.
C3_Witness ==
    \/ (engine = "v10" /\ position.action = "BUY"
          /\ position.sl > position.entry /\ Len(v10_events) > 0)
    \/ (engine = "cli" /\ active_trade.action = "BUY"
          /\ active_trade.sl > active_trade.entry)

\* C4: manage_position moves the stop to entry only when the unrealized
\* profit in the position's direction is at least 1R; while the position
\* has never been moved to breakeven, a call with less than 1R of profit
\* (a loss of 1R or more in particular) leaves the stop where it was, so a
\* stop-out closes at that stop.
C4_BreakevenOnlyInProfit ==
    [][(/\ engine = "v10"
        /\ bars' = bars + 1
        /\ v10_call'.before.action # "NONE"
        /\ ~v10_call'.before.breakeven
        /\ Pips(v10_call'.before, v10_call'.price)
             < RiskPips(v10_call'.before))
       => (/\ StopAfterV10 = v10_call'.before.sl
           /\ (v10_call'.event.reason = "Stop loss hit"
                 => v10_call'.event.price = v10_call'.before.sl))]_vars

\* C5: the 2R and 3R thresholds of manage_position are measured against
\* the stop distance fixed at entry: a first partial close needs a profit
\* of at least twice that distance, a second partial close at least three
\* times.
C5_ThresholdsUseInitialRisk ==
    [][(engine = "v10" /\ bars' = bars + 1
          /\ v10_call'.before.action # "NONE")
       => (/\ (v10_call'.event.reason = "Partial profit at 2R")
                => Pips(v10_call'.before, v10_call'.price)
                     >= 2 * InitialRiskPips(v10_call'.before)
           /\ (v10_call'.event.reason = "Second partial at 3R")
                => Pips(v10_call'.before, v10_call'.price)
                     >= 3 * InitialRiskPips(v10_call'.before))]_vars

CountOf(seq, x) == Cardinality({i \in 1..Len(seq) : seq[i] = x})

\* C6: for one position the first PARTIAL_CLOSE (2R) is emitted at most
\* once, the second (3R) at most once, and the second never before the
\* first.
C6_PartialsOnceInOrder ==
    /\ CountOf(v10_events, "Partial profit at 2R") <= 1
    /\ CountOf(v10_events, "Second partial at 3R") <= 1
    /\ \A i \in 1..Len(v10_events) :
          v10_events[i] = "Second partial at 3R"
            => \E j \in 1..(i - 1) : v10_events[j] = "Partial profit at 2R"

\* Witness of C6: both partial closes were emitted for the open position.
C6_Witness ==
    /\ engine = "v10"
    /\ position.partial_taken /\ position.partial2_taken
    /\ CountOf(v10_events, "Partial profit at 2R") = 1
    /\ CountOf(v10_events, "Second partial at 3R") = 1

----------------------------------------------------------------------------
(* Properties of the risk manager *)

\* Number of LOSS results at the end of the ingested history.
RECURSIVE TrailingLosses(_)
TrailingLosses(rt) ==
    IF rt = << >> THEN 0
    ELSE IF rt[Len(rt)].result = "LOSS"
    THEN 1 + TrailingLosses(SubSeq(rt, 1, Len(rt) - 1))
    ELSE 0

\* The drawdown of a balance handed to is_locked_out exceeds 2% of the peak.
DrawdownExceeds(balance, peak) ==
    balance # NoBalance /\ peak > 0 /\ (peak - balance) * 100 > 2 * peak

\* The cooldown of the direction has not elapsed at the time of the call.
CooldownRunning(direction) ==
    /\ last_trade_time[direction] # -1
    /\ (now - last_trade_time[direction]) * 100 < adaptive_cooldowns'[direction]

\* C7 as stated: after three consecutive LOSS results is_locked_out
\* answers locked with the consecutive-loss reason, whatever the direction,
\* the balance handed in and the time elapsed.
C7_StreakLockCitesStreak ==
    [][(rm_last'.op = "is_locked_out" /\ TrailingLosses(recent_trades) >= 3)
       => (rm_last'.locked /\ rm_last'.reason = "PROTECTION")]_vars

\* C7 amended: after three consecutive LOSS results is_locked_out answers
\* locked for either direction whatever the time elapsed; the reason is
\* the consecutive-loss protection, or the emergency drawdown when a
\* balance is handed in whose drawdown from the peak exceeds 2%.
C7_StreakLocks ==
    [][(rm_last'.op = "is_locked_out" /\ TrailingLosses(recent_trades) >= 3)
       => (/\ rm_last'.locked
           /\ rm_last'.reason \in {"PROTECTION", "EMERGENCY"}
           /\ (rm_last'.reason = "EMERGENCY"
                 => DrawdownExceeds(rm_last'.balance, account_peak))
           /\ (~DrawdownExceeds(rm_last'.balance, account_peak)
                 => rm_last'.reason = "PROTECTION"))]_vars

\* Witness of C7: three losses ingested, a trade of the direction
\* registered long enough ago for the base cooldown to be over, and the
\* verdict is the consecutive-loss lock.
C7_Witness ==
    /\ rm_last.op = "is_locked_out"
    /\ TrailingLosses(recent_trades) >= 3
    /\ rm_last.locked /\ rm_last.reason = "PROTECTION"
    /\ last_trade_time[rm_last.direction] # -1
    /\ now - last_trade_time[rm_last.direction] >= TickMinutes

\* C8: is_locked_out applies its checks in fixed precedence: a drawdown
\* from the peak above the hard threshold locks with the emergency
\* reason; otherwise a reached loss streak locks with the protection
\* reason; the cooldown reason is given only when neither applies and the
\* cooldown is running; in every other case the entry is permitted.
C8_LockoutPrecedence ==
    [][(rm_last'.op = "is_locked_out")
       => LET dd == DrawdownExceeds(rm_last'.balance, account_peak)
              streak == TrailingLosses(recent_trades) >= consecutive_loss_limit
              cool == CooldownRunning(rm_last'.direction)
          IN  /\ dd => (rm_last'.locked /\ rm_last'.reason = "EMERGENCY")
              /\ (~dd /\ streak)
                   => (rm_last'.locked /\ rm_last'.reason = "PROTECTION")
              /\ (~dd /\ ~streak /\ cool)
                   => (rm_last'.locked
                       /\ rm_last'.reason = "Adaptive cooldown")
              /\ (~dd /\ ~streak /\ ~cool)
                   => (~rm_last'.locked /\ rm_last'.reason = "")]_vars

\* C9: every adaptive cooldown stored for a direction (the value
\* should_adapt_cooldown returns is the one it stores) lies in
\* [base_cooldown, max_cooldown].
C9_CooldownInRange ==
    \A d \in Directions :
        adaptive_cooldowns[d] # 0
          => (base_cooldown <= adaptive_cooldowns[d]
              /\ adaptive_cooldowns[d] <= max_cooldown)

\* Witness of C9: repeated evaluations have driven a cooldown to the cap.
C9_Witness ==
    \E d \in Directions : adaptive_cooldowns[d] = max_cooldown

\* The cooldown the statistics alone give: base_cooldown times the largest
\* applicable factor, capped, then reduced for good performance.
CooldownFromBase(rt, cl, cw, mdd) ==
    LET multiplier == Multiplier10(CooldownFactors(rt, cl, mdd))
        raised_cd == Min2((base_cooldown * multiplier) \div 10, max_cooldown)
        wr == CalculateWinRate(rt, 10)
        ratio == CalculateAvgWinLossRatio(rt)
    IN  IF cw >= 3 THEN Max2((raised_cd * 7) \div 10, base_cooldown)
        ELSE IF wr[1] * 10 > 6 * wr[2] /\ ratio[1] * 2 > 3 * ratio[2]
        THEN Max2((raised_cd * 8) \div 10, base_cooldown)
        ELSE raised_cd

\* C10: an evaluation of the adaptive cooldown yields base_cooldown times
\* the largest applicable factor (reduced for good performance, clamped),
\* a function of the current statistics only, so that evaluating it again
\* with no trade outcome ingested in between yields the same value.
C10_CooldownFromStatistics ==
    [][\A d \in Directions :
          (rm_last'.op \in {"should_adapt_cooldown", "is_locked_out"}
             /\ rm_last'.direction = d
             /\ (adaptive_cooldowns'[d] # adaptive_cooldowns[d]
                   \/ rm_last'.op = "should_adapt_cooldown"))
          => adaptive_cooldowns'[d]
               = CooldownFromBase(recent_trades, consecutive_losses,
                                  consecutive_wins, max_drawdown)]_vars

----------------------------------------------------------------------------
(* Properties of the periodic streak update *)

\* The closed trades of the log: the fills with a realised profit or loss.
ClosedTrades(log) == SelectSeq(log, LAMBDA tx : tx.pl # 0)

\* The number of losing trades at the recent end of a sequence of closed
\* trades.
RECURSIVE TrailingLosingTrades(_)
TrailingLosingTrades(closed) ==
    IF closed = << >> \/ closed[Len(closed)].pl >= 0
    THEN 0
    ELSE 1 + TrailingLosingTrades(SubSeq(closed, 1, Len(closed) - 1))

\* C11: every closed trade is handed to update_performance exactly once.
\* When a run of update_streak has completed, the manager's trade history
\* holds one record per closed trade of the log, and the manager's
\* consecutive_losses is the number of trailing losing trades of the log,
\* however many runs came before.
C11_EachTradeIngestedOnce ==
    (streak_status = "done") =>
        /\ Len(recent_trades) = Len(ClosedTrades(txs))
        /\ consecutive_losses = TrailingLosingTrades(ClosedTrades(txs))

----------------------------------------------------------------------------
(* Frame of the lockout gate *)

\* The fields of the risk state.
RiskState ==
    <<recent_trades, consecutive_losses, consecutive_wins, rm_daily_pnl,
      account_peak, max_drawdown, adaptive_cooldowns, last_trade_time>>

\* C12: the lockout gate is read-only.  A step that changes a field of the
\* risk state (trade history, streak counters, daily PnL, peak, drawdown,
\* per-direction cooldowns, per-direction last-trade times) is a call of
\* update_performance or of register_trade, never a call of is_locked_out.
C12_GateIsReadOnly ==
    [][(RiskState' # RiskState) =>
           rm_last'.op \in {"update_performance", "register_trade"}]_vars

----------------------------------------------------------------------------
(* Properties of generate_signal *)

\* The last call returned a BUY or SELL decision.
Decided == sig_call.action \in {"BUY", "SELL"}

\* C14: every BUY or SELL decision has |tp - entry| equal to rr_ratio times
\* |entry - sl|, rr_ratio being the value of the configuration the strategy
\* object was built with, whatever the type of the signal.
C14_TargetIsRrTimesStop ==
    Decided =>
        Abs(sig_call.tp - sig_call.entry) * 10
            = strat_cfg.rr10 * Abs(sig_call.entry - sig_call.sl)

\* C15: a generate_signal call that returns HOLD leaves the cooldown memory
\* (last_signal_idx, last_signal_time) unchanged; only a call that returns
\* BUY or SELL writes it.
C15_HoldKeepsMemory ==
    [][(<<last_signal_idx, last_signal_time>>'
            # <<last_signal_idx, last_signal_time>>)
          => sig_call'.action \in {"BUY", "SELL"}]_vars

\* The cooldown of the strategy object: bars and time (units of five
\* minutes).
CooldownBarsOf(kind, c) ==
    IF kind = "strategy" THEN StrategyCooldownBars ELSE c.signal_cooldown

MinHoursOf(kind, c) ==
    IF kind = "strategy" THEN StrategyMinHours ELSE c.min_hours

\* C16: once strategy.py or strategy_backup.py has emitted at bar t and time
\* T, a later call returns BUY or SELL only when at least cooldown_bars bars
\* have been added after t and at least min_hours_between_trades have
\* elapsed since T; until then every call returns HOLD.
C16_BothCooldownsRequired ==
    [][(/\ strat \in {"strategy", "strategy_backup"}
        /\ last_signal_idx # -1
        /\ sig_len' # sig_len
        /\ sig_call'.action \in {"BUY", "SELL"})
          => /\ (sig_len' - 1) - last_signal_idx
                    >= CooldownBarsOf(strat, strat_cfg)
             /\ sig_time' - last_signal_time
                    >= MinHoursOf(strat, strat_cfg)]_vars

\* A call after an emission found exactly one of the two conditions met and
\* returned HOLD.
C16_Witness ==
    /\ strat \in {"strategy", "strategy_backup"}
    /\ last_signal_idx # -1
    /\ sig_call.action = "HOLD"
    /\ sig_call.bar_cooldown_ok # sig_call.time_cooldown_ok

\* The signals list of the last call holds a BUY and a SELL candidate.
BothQualify ==
    \E i, j \in DOMAIN sig_call.signals :
        /\ sig_call.signals[i].action = "BUY"
        /\ sig_call.signals[j].action = "SELL"

\* C18: when on the same bar a BUY candidate and a SELL candidate both
\* qualify, generate_signal returns BUY.
C18_BuyBeforeSell == BothQualify => sig_call.action = "BUY"

\* C19: in strategy_backup.py the entry trigger passes on a fresh cross or,
\* without one, on an EMA alignment with a strongly trending ADX.  A call
\* that may trade (both cooldowns met), whose regime filters, pullback,
\* momentum and BOS gates pass and whose size is large enough, returns BUY
\* or SELL when either trigger holds.
C19_AlignmentTriggers ==
    (/\ strat = "strategy_backup"
     /\ sig_call.bar_cooldown_ok /\ sig_call.time_cooldown_ok
     /\ sig_call.other_gates
     /\ (sig_call.cross_fresh \/ sig_call.alignment)
     /\ sig_call.reason # "Position size too small")
        => sig_call.action \in {"BUY", "SELL"}

----------------------------------------------------------------------------
(* Spacing of entries in the replay *)

\* The positions the run has opened so far: the closed ones and the open
\* one.
EntriesSoFar ==
    Len(trades)
      + (IF active_trade.action # "NONE" \/ position # NoPos THEN 1 ELSE 0)

\* C17: with PhantomNodeV10, two consecutive entries are at least
\* cooldown_bars bars apart, also when the first position has already
\* closed.  Two entries made within the first cooldown_bars bars of a run
\* are closer than that, so a run of backtest_cli.py or backtest_v10.py has
\* opened at most one position by then.
C17_EntriesSpaced ==
    (engine \in {"cli", "v10"} /\ bars <= V10CooldownBars)
        => EntriesSoFar <= 1

\* C20: a candidate signal whose stop distance |entry - stop| is zero gets
\* size 0 and is rejected: the bar that carries it opens no position, in
\* backtest_v10.py as in the other replay loops.
C20_ZeroDistanceRejected ==
    [][/\ (position = NoPos /\ v10_call' # NoCall)
              => v10_call'.before.sl # v10_call'.before.entry
       /\ (active_trade.action = "NONE" /\ active_trade'.action # "NONE")
              => active_trade'.sl # active_trade'.entry]_vars

----------------------------------------------------------------------------
(* Properties of repeated runs *)

\* The second run() of the object has consumed the whole frame.
SecondRunDone == run_no = 2 /\ bars = Len(feed)

\* C13: the result of a replay depends on the bars, the configuration and
\* the initial equity only: when a backtester object is run a second time
\* on the same frame, the ledger and the balance it reports are those of
\* the first run; nothing the first run left in the backtester or in its
\* strategy (balance, trade list, last signal index and time) changes them.
C13_RerunSameResult == SecondRunDone => RunResult = first_result

----------------------------------------------------------------------------
(* Properties of sizing in the replay *)

\* C21: the replay opens a position only when its computed size reaches
\* the minimum tradable size: the open position never has 0 units, and no
\* trade of the ledger has 0 units.
C21_NoZeroUnitPosition ==
    (engine \in {"cli", "fast", "vec"}) =>
        /\ (active_trade.action # "NONE" => active_trade.units # 0)
        /\ \A k \in 1..Len(trades) :
              ("units" \in DOMAIN trades[k]) => trades[k].units # 0

\* A step of the replay books a trade that left at a stop on the losing
\* side of its entry, which is the stop it was opened with.
StoppedAtInitialStop ==
    /\ engine \in {"cli", "fast", "vec"}
    /\ active_trade.action # "NONE"
    /\ Len(trades') = Len(trades) + 1
    /\ bar'.exit.price = active_trade.sl
    /\ IF active_trade.action = "BUY" THEN active_trade.sl < active_trade.entry
       ELSE active_trade.sl > active_trade.entry

\* C22: a position that leaves at its initial stop loses no more than
\* risk_per_trade of the equity it was sized on, up to a cent of rounding.
\* Equity moves only when a trade is booked, so the equity before the
\* closing step is the equity at entry.
C22_StopLossWithinRisk ==
    [][StoppedAtInitialStop =>
          100 * (equity - equity') <= equity * cfg.risk_pct + 100]_vars

\* C23: calc_units_usdjpy never returns more units than its caps allow:
\* |units| <= min(100000, 20 * balance) and
\* |units| <= min(50000, 1000 * balance * risk_pct).
C23_UnitsWithinCaps ==
    LET u == Abs(units_call.units)
    IN  (units_call.action # "NONE") =>
            /\ u <= 100000
            /\ u <= 20 * units_call.balance
            /\ u <= 50000
            /\ u * 1000 <= units_call.balance * units_call.risk_pct

----------------------------------------------------------------------------
(* Properties of the equity curve and of the single position *)

\* A step of backtest_cli.py or optimize_fast.py consumes a bar.
CurveLoopStep == engine \in {"cli", "fast"} /\ bars' = bars + 1

\* C24: the replay appends exactly one equity point, the equity after the
\* bar, for every bar it processes, whatever happened to a trade on that
\* bar, and none for a bar skipped as earlier than the target start date;
\* the points already recorded stay as they are, so they are in bar order.
C24_OnePointPerBar ==
    [][CurveLoopStep =>
          IF day' = BeforeStart
          THEN equity_curve' = equity_curve
          ELSE equity_curve' = Append(equity_curve, equity')]_vars

\* A run of backtest_cli.py that skipped a bar, then opened a trade and
\* closed it on a later bar.
C24_Witness ==
    /\ engine = "cli"
    /\ bars = Len(equity_curve) + 1
    /\ Len(equity_curve) >= 2
    /\ Len(trades) >= 1

\* The size a loop gives a position of the direction, entry and stop of p
\* on the equity eq.
SizedOn(eq, p) ==
    IF engine = "cli" THEN CliUnits(eq, cfg, p)
    ELSE IF engine = "fast" THEN FastUnits(eq, cfg, p)
    ELSE VecSize(eq, p)

\* The last record of the ledger after the step.
Booked == trades'[Len(trades')]

\* C25: at most one position is open.  In backtest_cli.py,
\* optimize_fast.py and backtester.py a step that closes nothing leaves an
\* open position the one it was (only its stop may move); a step that
\* closes the open position books it to the ledger (under its own
\* direction, entry and size where the ledger keeps them) and to equity,
\* and a position opened on that same bar is sized on the equity after the
\* booking; nothing is booked when nothing was open.  In backtest_v10.py
\* an open position stays the one it was or is closed and booked, and
\* the bar that closes it opens no other.
C25_SinglePosition ==
    [][IF engine \in {"cli", "fast", "vec"}
       THEN LET open == active_trade.action # "NONE"
                closes == Len(trades') = Len(trades) + 1
            IN  /\ Len(trades') \in {Len(trades), Len(trades) + 1}
                /\ (~open) => ~closes
                /\ (open /\ ~closes) =>
                      /\ active_trade'.action = active_trade.action
                      /\ active_trade'.entry = active_trade.entry
                      /\ active_trade'.tp = active_trade.tp
                      /\ active_trade'.units = active_trade.units
                /\ (open /\ closes) =>
                      /\ ("action" \in DOMAIN Booked) =>
                            /\ Booked.action = active_trade.action
                            /\ Booked.entry = active_trade.entry
                            /\ Booked.units = active_trade.units
                      /\ equity' = equity + Booked.pnl
                      /\ (active_trade'.action # "NONE") =>
                            active_trade'.units = SizedOn(equity', active_trade')
       ELSE IF engine = "v10"
       THEN LET open == position.action # "NONE"
                closes == Len(trades') = Len(trades) + 1
            IN  /\ Len(trades') \in {Len(trades), Len(trades) + 1}
                /\ closes => (position' = NoPos /\ equity' = equity + Booked.pnl)
                /\ (open /\ ~closes) =>
                      /\ position'.action = position.action
                      /\ position'.entry = position.entry
                      /\ position'.entry_time = position.entry_time
                /\ (open /\ closes) =>
                      /\ Booked.action = position.action
                      /\ Booked.entry = position.entry
       ELSE TRUE]_vars

\* A run of backtest_cli.py whose last bar closed the open position and
\* opened another.
C25_Witness ==
    /\ engine = "cli"
    /\ Len(trades) >= 1
    /\ bar.exit.reason # "none"
    /\ active_trade.action # "NONE"

----------------------------------------------------------------------------
(* Properties of the live position manager *)

\* The stop prices sent for one trade never loosen: each is at least as
\* tight as the one sent before it.
NeverLoosens(direction, sent) ==
    \A k \in 1..(Len(sent) - 1) :
        IF direction = "BUY" THEN sent[k] <= sent[k + 1]
        ELSE sent[k] >= sent[k + 1]

\* C26: for a live trade, the stop prices sync_and_manage sends to the
\* broker (the ROI-protect floor, then the smart-gap trail, in one scan and
\* over the scans) never loosen: ascending for a long, descending for a
\* short.
C26_SentStopsNeverLoosen ==
    \A k \in DOMAIN broker_trades :
        LET tr == broker_trades[k]
        IN  (tr.id \in DOMAIN sl_sent) =>
                NeverLoosens(tr.direction, sl_sent[tr.id])

\* C27: the position manager asks for a close by time exactly when the
\* trade has been open 4 to 8 hours and is flat (|R| < 0.2), or has been
\* open 8 hours or more with R < 1.5; a trade open 8 hours or more with
\* R >= 1.5 and a trade open less than 4 hours are not closed by time.
C27_TimeStopCases ==
    \A k \in DOMAIN pm_scan :
        LET s == pm_scan[k]
            hours4 == 240
            hours8 == 480
            flat == AbsRLess(s.profit, s.one_r10, 2, 10)
            below_runner == RLess(s.profit, s.one_r10, 15, 10)
        IN  /\ (s.kill # "none") <=>
                  \/ (hours4 <= s.time_in_trade /\ s.time_in_trade < hours8
                        /\ flat)
                  \/ (s.time_in_trade >= hours8 /\ below_runner)
            /\ (s.time_in_trade >= hours8 /\ ~below_runner) => s.kill = "none"
            /\ (s.time_in_trade < hours4) => s.kill = "none"

\* Scans that met a runner (8 hours, R >= 1.5) and left it open.
C27_Witness ==
    \E k \in DOMAIN pm_scan :
        /\ pm_scan[k].time_in_trade >= 480
        /\ ~RLess(pm_scan[k].profit, pm_scan[k].one_r10, 15, 10)
        /\ pm_scan[k].kill = "none"
        /\ \E j \in DOMAIN broker_trades : broker_trades[j].id = pm_scan[k].id

----------------------------------------------------------------------------
(* Properties of check_time_stop *)

\* The R of the position of the last call, in its own direction, is below
\* the runner floor time_stop_min_rr.
TsBelowFloor ==
    LET price == IF ts_call.current_price = NoPrice THEN ts_call.entry
                 ELSE ts_call.current_price
        gain == IF ts_call.action = "BUY" THEN price - ts_call.entry
                ELSE ts_call.entry - price
    IN  gain * 10 < time_stop_min_rr * Abs(ts_call.entry - ts_call.sl)

\* C28: with the time stop enabled, once time_stop_hours have passed since
\* entry check_time_stop asks for the exit of a position whose R is below
\* time_stop_min_rr and not of one at or above it; before time_stop_hours
\* it never asks for an exit.
C28_TimeStopSparesRunners ==
    (ts_call.action # "NONE" /\ ts_call.enabled) =>
        IF ts_call.time_elapsed >= time_stop_hours
        THEN ts_call.exit <=> TsBelowFloor
        ELSE ~ts_call.exit

----------------------------------------------------------------------------
(* Properties of the live loop *)

\* A step of the loop sends an order to the broker.
OrderSent == Len(order_log') > Len(order_log)

\* C29: while the daily circuit breaker is tripped the live loop places no
\* new order: no step calls execute_order in a scan whose
\* circuit_breaker_tripped is true.
C29_NoOrderWhileTripped ==
    [][OrderSent => ~circuit_breaker_tripped]_vars

\* C30: when the live loop has ended on the kill-switch file or on a
\* keyboard interrupt, no trade of the pair is open at the broker.
C30_FlatOnExternalStop ==
    pc = "stopped" => broker_trades = << >>

----------------------------------------------------------------------------
(* Properties of the lockouts over time *)

\* C31: the consecutive-loss lockout is recoverable: from every state in
\* which it blocks new entries the system reaches, by itself, a state in
\* which it permits an entry again.
C31_LockoutRecovers ==
    StreakApplies(consecutive_losses) ~> ~StreakApplies(consecutive_losses)

----------------------------------------------------------------------------
(* Properties of update_performance *)

\* The trade the last update_performance call appended.
Ingested == recent_trades'[Len(recent_trades')]

\* C32: after any sequence of update_performance calls consecutive_losses
\* and consecutive_wins are never both positive and the history holds at
\* most the 20 most recent trades; a LOSS adds one to the loss counter and
\* resets the win counter to 0, a WIN does the reverse.
C32_CountersExclusive ==
    /\ [](/\ ~(consecutive_losses > 0 /\ consecutive_wins > 0)
          /\ Len(recent_trades) <= HistoryWindow)
    /\ [][ingests' = ingests + 1 =>
            /\ Ingested.result = "LOSS" =>
                  /\ consecutive_losses' = consecutive_losses + 1
                  /\ consecutive_wins' = 0
            /\ Ingested.result = "WIN" =>
                  /\ consecutive_wins' = consecutive_wins + 1
                  /\ consecutive_losses' = 0
            /\ Len(recent_trades) = HistoryWindow =>
                  recent_trades' = Append(Tail(recent_trades), Ingested)]_vars

\* A win is ingested after a streak of losses by a manager whose history
\* was full: the oldest trade has left the history.
C32_Witness ==
    /\ ingests = MaxHistIngests
    /\ Len(recent_trades) = HistoryWindow
    /\ consecutive_wins = 1
    /\ recent_trades[HistoryWindow - 1].result = "LOSS"
    /\ rm_daily_pnl < -300

\* C33: update_performance never raises, whatever the account balance (0
\* included) and also on a first ingest made before a positive peak balance
\* was recorded, and the drawdown it stores is a finite value.
C33_UpdateNeverRaises ==
    rm_last.op = "update_performance" =>
        /\ ~rm_last.raised
        /\ max_drawdown[2] > 0

----------------------------------------------------------------------------
(* Properties of the candle feed of backtest_cli.py *)

\* The step consumes a candle that is malformed or out of order.
BadBarStep ==
    \/ cli_feed'.stale > cli_feed.stale
    \/ cli_feed'.error /\ ~cli_feed.error

\* C34: a malformed bar, or a bar whose timestamp does not increase, is
\* rejected on its own: the run does not end in error, and the bar changes
\* neither the position, the ledger, the equity nor the daily PnL.
C34_BadBarRejected ==
    [][BadBarStep =>
          /\ ~cli_feed'.error
          /\ UNCHANGED <<last_date, equity, daily_pnl, active_trade,
                         trades>>]_vars

----------------------------------------------------------------------------
(* Properties of the minimum history *)

\* The minimum number of bars each generate_signal documents.
MinimumHistory ==
    [strategy |-> 100, strategy_v10 |-> 100, strategy_backup |-> 400]

----------------------------------------------------------------------------
(* Properties of generate_signal on a trend *)

\* C36: on a sustained uptrend with ADX above the strong-trend threshold,
\* feeding the bars one by one to generate_signal eventually returns a BUY.
C36_UptrendBuys == <>(sig_call.action = "BUY")

----------------------------------------------------------------------------
(* Properties of the stop within one bar *)

\* The step replays one bar of backtest_cli.py on an open position.
CliManagedBar ==
    /\ engine = "cli"
    /\ active_trade.action # "NONE"
    /\ bars' = bars + 1
    /\ bar' # NoBar

\* The bar reaches the stop as it stood before the bar.
ReachesEarlierStop ==
    IF active_trade.action = "BUY" THEN bar'.low <= active_trade.sl
    ELSE bar'.high >= active_trade.sl

\* C37: a stop raised during a bar cannot be hit by that same bar: a bar
\* that reaches the stop as it stood before the bar exits at that earlier
\* stop price, and every stop exit of a bar is at that earlier price.
C37_RaisedStopNotHitSameBar ==
    [][CliManagedBar =>
          /\ (ReachesEarlierStop => bar'.exit.price = active_trade.sl)
          /\ (bar'.exit.reason = "Stop Loss"
                 => bar'.exit.price = active_trade.sl)]_vars

----------------------------------------------------------------------------
(* Properties of the close-out of backtest_v10.py *)

\* The step is the close-out of a run that ends with a position open.
ClosesOutOpenPosition ==
    /\ v10_end = "running"
    /\ v10_end' # "running"
    /\ position # NoPos

\* C38: at the end of the run a position still open after the last bar is
\* closed and recorded as a trade, and the step completes without error
\* whatever manage_position returns.
C38_FinalPositionRecorded ==
    [][ClosesOutOpenPosition =>
          /\ v10_end' = "done"
          /\ position' = NoPos
          /\ Len(trades') = Len(trades) + 1]_vars

----------------------------------------------------------------------------
(* Properties of the equity of backtest_cli.py *)

\* The sum of the PnL of the ledger's trades.
RECURSIVE LedgerPnl(_)
LedgerPnl(ledger) ==
    IF ledger = << >> THEN 0
    ELSE ledger[1].pnl + LedgerPnl(Tail(ledger))

\* C39: at every bar of the replay equity is the initial equity plus the
\* sum of the PnL of the trades in the ledger, and the reported totalPnl is
\* that sum: what equity exceeds the ledger's sum by is the initial equity
\* of the run and no bar changes it.
C39_EquityIsLedgerSum ==
    /\ [](engine = "cli" => equity - LedgerPnl(trades) \in CliInitialEquity)
    /\ [][engine = "cli" =>
             equity' - LedgerPnl(trades') = equity - LedgerPnl(trades)]_vars

\* Two trades were closed, one at a profit and one at a loss.
C39_Witness ==
    /\ engine = "cli"
    /\ Len(trades) = 2
    /\ trades[1].pnl * trades[2].pnl < 0
    /\ equity # InitialEquity

----------------------------------------------------------------------------
(* Properties of the cooldown under a sliding window *)

\* The M15 bars that arrived after the bar of the last emission.
NewBarsSinceEmission == (sig_time - last_signal_time) \div M15

\* The last call got as far as the cooldown test.
ReachedCooldownTest ==
    /\ sig_call # NoSigCall
    /\ sig_call.reason \notin {"Insufficient data", "Outside trading session",
                               "Need 400 bars", "Outside trading hours",
                               "Low volatility"}

\* C40: the bar-count cooldown depends only on the new bars since the last
\* emission, not on the length of the window: with a sliding window of fixed
\* length the bar condition holds in every call made once cooldown_bars new
\* bars and the minimum hours have elapsed since the last emitted signal.
C40_CooldownCountsNewBars ==
    LET cooldown_bars == IF strat = "strategy" THEN StrategyCooldownBars
                         ELSE strat_cfg.signal_cooldown
        min_hours == IF strat = "strategy" THEN StrategyMinHours
                     ELSE strat_cfg.min_hours
    IN  (/\ strat \in {"strategy", "strategy_backup"}
         /\ ReachedCooldownTest
         /\ last_signal_time # NoTime
         /\ NewBarsSinceEmission >= cooldown_bars
         /\ sig_time - last_signal_time >= min_hours)
            => sig_call.bar_cooldown_ok

====
